---- MODULE Spec2Model ----
(***************************************************************************)
(* TheSu-to-DOT: the graph rewriting pipeline of create_dot, the           *)
(* pseudo-node identifier generator, the deduplication pass and the        *)
(* global document-filter toggles, as state machines.                      *)
(*                                                                         *)
(* The DOT file is a sequence of lines.  A line is a record                *)
(*   [kind, id, tgt, attrs, indent]                                        *)
(* kind = "node" : the node definition  "id" [attrs];                      *)
(* kind = "edge" : the edge definition  "id" -> "tgt" [attrs];             *)
(* kind = "close": the line  }                                             *)
(* indent is the white space in front of the text.                         *)
(* A node id is the sequence of the parts of its text between "_".         *)
(***************************************************************************)
EXTENDS Integers, Sequences, FiniteSets, TLC

\* ------------------------------------------------------------------------
\* Bounds of the model
\* ------------------------------------------------------------------------
\* number of edge lines in the file handed to the rewriting passes
MaxEdges == 4

\* ------------------------------------------------------------------------
\* Identifiers
\* ------------------------------------------------------------------------
\* An identifier is the sequence of the parts that "_" separates in its
\* text: "T1_to_T2_1" is <<"T1", "to", "T2", "1">>.
Id(b) == <<b>>

NoId == <<>>

\* f"{excluded_id}_filtered"
FilteredId(n) == Append(n, "filtered")

\* text.endswith("_" + part)
EndsWith(n, part) == Len(n) >= 2 /\ n[Len(n)] = part

\* "_" + parts[1] + "_" + ... + "_" in text
Contains(n, parts) ==
    \E i \in 2..(Len(n) - Len(parts)) : \A k \in DOMAIN parts : n[i + k - 1] = parts[k]

\* The source document: THESIS T1 contains THESIS T2, which contains SUPPORT S1;
\* THESIS T3 is a second top-level element.
T1 == Id("T1")

T2 == Id("T2")

S1 == Id("S1")

T3 == Id("T3")

\* a further top-level THESIS, whose xml:id is "T1_referenced-in_T2_1"
HomonymThesis == <<"T1", "referenced-in", "T2", "1">>

Elements == {T1, T2, S1, T3}

\* mediator pseudo-nodes: a function node, an entailment node, an analogy node
S1_func == <<"S1", "func">>

T1_to_T2_1 == <<"T1", "to", "T2", "1">>

T2_analogy_to_T1_1 == <<"T2", "analogy", "to", "T1", "1">>

\* the reference node of "T1 refers to T3": f"{referenced_id}_referenced-in_{element_id}_1"
T3_referenced_in_T1_1 == <<"T3", "referenced-in", "T1", "1">>

Mediators == {S1_func, T1_to_T2_1, T2_analogy_to_T1_1, T3_referenced_in_T1_1}

\* node_id.endswith('_filtered')
IsFiltered(n) == EndsWith(n, "filtered")

is_mediator_node(node_id) ==
    \/ EndsWith(node_id, "func") \/ EndsWith(node_id, "employed")
    \/ Contains(node_id, <<"to">>)
    \/ Contains(node_id, <<"in", "etiology", "in">>)
    \/ Contains(node_id, <<"analogy", "to">>)
    \/ Contains(node_id, <<"referenced-in">>)

\* ------------------------------------------------------------------------
\* The original XML document, as edge validation re-parses it
\* ------------------------------------------------------------------------
\* the tag of the element with this xml:id, "none" when there is no such element
XmlTag(n) == IF n \in {T1, T2, T3, HomonymThesis} THEN "THESIS"
             ELSE IF n = S1 THEN "SUPPORT" ELSE "none"

\* xpath('ancestor::thesu:THESIS'): the THESIS ancestors in document order,
\* outermost first
XmlThesisAncestors(n) == IF n = S1 THEN <<T1, T2>>
                         ELSE IF n = T2 THEN <<T1>> ELSE <<>>

\* T<digit>... is a THESIS, S<digit>... a SUPPORT, anything else a THESIS
_infer_element_type_from_id(node_id) ==
    IF node_id # <<>> /\ node_id[1] \in {"T1", "T2", "T3"} THEN "THESIS"
    ELSE IF node_id # <<>> /\ node_id[1] \in {"S1"} THEN "SUPPORT"
    ELSE "THESIS"

_get_excluded_element_type(elem_id) ==
    IF XmlTag(elem_id) = "THESIS" THEN "THESIS"
    ELSE IF XmlTag(elem_id) = "SUPPORT" THEN "SUPPORT"
    ELSE _infer_element_type_from_id(elem_id)

\* ------------------------------------------------------------------------
\* Lines of the DOT file
\* ------------------------------------------------------------------------
\* the attribute list of a line: its style text and, for the dashed edges of
\* the pruning pass, the count N of the xlabel (0 = "indirectly connected",
\* N > 0 = "via N filtered"); via = -1 when the line has no such xlabel
Attrs(style) == [style |-> style, via |-> -1]

NodeLine(n, a) == [kind |-> "node", id |-> n, tgt |-> NoId, attrs |-> a, indent |-> 0]

EdgeLine(s, t, a) == [kind |-> "edge", id |-> s, tgt |-> t, attrs |-> a, indent |-> 0]

CloseLine == [kind |-> "close", id |-> NoId, tgt |-> NoId, attrs |-> Attrs(""),
              indent |-> 0]

_make_filtered_node_line(excluded_id, element_type) ==
    NodeLine(FilteredId(excluded_id),
             Attrs(IF element_type = "SUPPORT" THEN "filtered SUPPORT"
                   ELSE "filtered THESIS"))

\* the node ids with a definition line
DefinedNodes(lines) == {lines[i].id : i \in {j \in DOMAIN lines : lines[j].kind = "node"}}

EdgeIndices(lines) == {i \in DOMAIN lines : lines[i].kind = "edge"}

\* index of the last line that is exactly "}", 0 when there is none
ClosingIndex(lines) ==
    LET S == {i \in DOMAIN lines : lines[i].kind = "close"}
    IN  IF S = {} THEN 0 ELSE CHOOSE i \in S : \A j \in S : j <= i

InsertBeforeClosing(lines, new_lines) ==
    LET c == ClosingIndex(lines)
    IN  IF c = 0 THEN lines
        ELSE SubSeq(lines, 1, c - 1) \o new_lines \o SubSeq(lines, c, Len(lines))

\* ------------------------------------------------------------------------
\* remove_excluded_node_definitions
\* ------------------------------------------------------------------------
remove_excluded_node_definitions(lines, exclude_set) ==
    IF exclude_set = {} THEN lines
    ELSE SelectSeq(lines, LAMBDA l : ~(l.kind = "node" /\ l.id \in exclude_set))

\* ------------------------------------------------------------------------
\* redirect_or_remove_invalid_edges
\* ------------------------------------------------------------------------
\* None
None == <<"None">>

find_thesis_ancestor(node_id, valid_defined_nodes) ==
    IF XmlTag(node_id) = "none" THEN None
    ELSE IF XmlTag(node_id) = "THESIS" /\ node_id \in valid_defined_nodes
         THEN node_id
    ELSE LET ancestors == XmlThesisAncestors(node_id)
         IN  IF Len(ancestors) > 0 /\ ancestors[1] \in valid_defined_nodes
             THEN ancestors[1]
             ELSE None

\* an outcome that lets an edge from a node to itself through
ResolveEdge_KeepSelfLoop(line, defined_nodes, excluded_set) ==
    LET source_missing == line.id \notin defined_nodes
        target_missing == line.tgt \notin defined_nodes
        src_anc == find_thesis_ancestor(line.id, defined_nodes)
        tgt_anc == find_thesis_ancestor(line.tgt, defined_nodes)
        final_source == IF ~source_missing THEN line.id
                        ELSE IF line.id \in excluded_set THEN FilteredId(line.id)
                        ELSE IF src_anc # None THEN src_anc ELSE line.id
        src_ok == ~source_missing \/ line.id \in excluded_set \/ src_anc # None
        final_target == IF ~(target_missing /\ src_ok) THEN line.tgt
                        ELSE IF line.tgt \in excluded_set THEN FilteredId(line.tgt)
                        ELSE IF tgt_anc # None THEN tgt_anc ELSE line.tgt
        tgt_ok == ~(target_missing /\ src_ok) \/ line.tgt \in excluded_set
                  \/ tgt_anc # None
        subst == (IF source_missing /\ line.id \in excluded_set
                  THEN <<line.id>> ELSE <<>>)
                 \o (IF target_missing /\ src_ok /\ line.tgt \in excluded_set
                     THEN <<line.tgt>> ELSE <<>>)
    IN  [final_source |-> final_source,
         final_target |-> final_target,
         can_preserve |-> src_ok /\ tgt_ok,
         valid |-> ~source_missing /\ ~target_missing,
         subst |-> subst]

\* The outcome of one edge of Pass 2: the final endpoints, whether the edge
\* can be preserved, and the excluded ids substituted (source first).
ResolveEdge(line, defined_nodes, excluded_set) ==
    LET source_missing == line.id \notin defined_nodes
        target_missing == line.tgt \notin defined_nodes
        src_anc == find_thesis_ancestor(line.id, defined_nodes)
        tgt_anc == find_thesis_ancestor(line.tgt, defined_nodes)
        final_source == IF ~source_missing THEN line.id
                        ELSE IF line.id \in excluded_set THEN FilteredId(line.id)
                        ELSE IF src_anc # None THEN src_anc ELSE line.id
        src_ok == ~source_missing \/ line.id \in excluded_set \/ src_anc # None
        final_target == IF ~(target_missing /\ src_ok) THEN line.tgt
                        ELSE IF line.tgt \in excluded_set THEN FilteredId(line.tgt)
                        ELSE IF tgt_anc # None THEN tgt_anc ELSE line.tgt
        tgt_ok == ~(target_missing /\ src_ok) \/ line.tgt \in excluded_set
                  \/ tgt_anc # None
        subst == (IF source_missing /\ line.id \in excluded_set
                  THEN <<line.id>> ELSE <<>>)
                 \o (IF target_missing /\ src_ok /\ line.tgt \in excluded_set
                     THEN <<line.tgt>> ELSE <<>>)
    IN  [final_source |-> final_source,
         final_target |-> final_target,
         can_preserve |-> src_ok /\ tgt_ok /\ final_source # final_target,
         valid |-> ~source_missing /\ ~target_missing,
         subst |-> subst]

\* a validation that leaves an edge it cannot resolve in the file
ProcessedLine_KeepUnresolved(line, defined_nodes, excluded_set) ==
    IF line.kind # "edge" THEN <<line>>
    ELSE LET r == ResolveEdge(line, defined_nodes, excluded_set)
         IN  IF r.valid \/ ~r.can_preserve THEN <<line>>
             ELSE <<EdgeLine(r.final_source, r.final_target, line.attrs)>>

\* the line that replaces line i, or <<>> when the edge is removed
ProcessedLine(line, defined_nodes, excluded_set) ==
    IF line.kind # "edge" THEN <<line>>
    ELSE LET r == ResolveEdge(line, defined_nodes, excluded_set)
         IN  IF r.valid THEN <<line>>
             ELSE IF r.can_preserve
                  THEN <<EdgeLine(r.final_source, r.final_target, line.attrs)>>
                  ELSE <<>>

RECURSIVE ProcessedLines(_, _, _, _)
ProcessedLines(lines, i, defined_nodes, excluded_set) ==
    IF i > Len(lines) THEN <<>>
    ELSE ProcessedLine(lines[i], defined_nodes, excluded_set)
         \o ProcessedLines(lines, i + 1, defined_nodes, excluded_set)

\* a bookkeeping that records a placeholder once for every edge that needs it
AppendNew_Always(seq, xs) == seq \o xs

AppendNew(seq, xs) ==
    LET s1 == IF Len(xs) >= 1 /\ ~(\E k \in DOMAIN seq : seq[k] = xs[1])
              THEN Append(seq, xs[1]) ELSE seq
    IN  IF Len(xs) >= 2 /\ ~(\E k \in DOMAIN s1 : s1[k] = xs[2])
        THEN Append(s1, xs[2]) ELSE s1

\* filtered_nodes_to_add: the excluded ids substituted, in insertion order;
\* the edges are processed bottom-up
RECURSIVE FilteredNodesToAdd(_, _, _, _, _)
FilteredNodesToAdd(lines, i, defined_nodes, excluded_set, acc) ==
    IF i < 1 THEN acc
    ELSE IF lines[i].kind # "edge"
         THEN FilteredNodesToAdd(lines, i - 1, defined_nodes, excluded_set, acc)
    ELSE LET r == ResolveEdge(lines[i], defined_nodes, excluded_set)
         IN  FilteredNodesToAdd(lines, i - 1, defined_nodes, excluded_set,
                                IF r.valid THEN acc ELSE AppendNew(acc, r.subst))

redirect_or_remove_invalid_edges(lines, elements) ==
    LET defined_nodes == DefinedNodes(lines)
        excluded_set == elements
        final_lines == ProcessedLines(lines, 1, defined_nodes, excluded_set)
        to_add == FilteredNodesToAdd(lines, Len(lines), defined_nodes, excluded_set, <<>>)
        insert_lines == [k \in DOMAIN to_add |->
                            _make_filtered_node_line(to_add[k],
                                                     _get_excluded_element_type(to_add[k]))]
    IN  IF to_add = <<>> THEN final_lines
        ELSE InsertBeforeClosing(final_lines, insert_lines)

\* ------------------------------------------------------------------------
\* prune_and_connect_filtered_nodes
\* ------------------------------------------------------------------------
\* iteration of a Python set: the members of S in the order of this run
Ordered(S, order) == SelectSeq(order, LAMBDA x : x \in S)

\* _parse_dot_graph: edges as (src, tgt, line_idx)
ParsedEdges(lines) == {<<lines[i].id, lines[i].tgt, i>> : i \in EdgeIndices(lines)}

\* undirected adjacency built from a set of (src, tgt, idx)
Adjacent(edges, n) ==
    {e[2] : e \in {d \in edges : d[1] = n}} \cup {e[1] : e \in {d \in edges : d[2] = n}}

\* a search that also continues through filtered neighbours
RECURSIVE FoundUnfiltered_ThroughFiltered(_, _, _, _, _, _)
FoundUnfiltered_ThroughFiltered(queue, visited, edges, unfiltered_nodes, mediator_nodes, order) ==
    IF queue = <<>> THEN FALSE
    ELSE LET curr == Head(queue)
             nbs == Adjacent(edges, curr) \ visited
         IN  IF nbs \cap unfiltered_nodes # {} THEN TRUE
             ELSE FoundUnfiltered_ThroughFiltered(Tail(queue) \o Ordered(nbs, order),
                                                  visited \cup nbs, edges, unfiltered_nodes,
                                                  mediator_nodes, order)

\* Phase 1a: breadth-first search from a filtered node through mediators
RECURSIVE FoundUnfiltered(_, _, _, _, _, _)
FoundUnfiltered(queue, visited, edges, unfiltered_nodes, mediator_nodes, order) ==
    IF queue = <<>> THEN FALSE
    ELSE LET curr == Head(queue)
             nbs == Adjacent(edges, curr) \ visited
         IN  IF nbs \cap unfiltered_nodes # {} THEN TRUE
             ELSE FoundUnfiltered(Tail(queue) \o Ordered(nbs \cap mediator_nodes, order),
                                  visited \cup nbs, edges, unfiltered_nodes,
                                  mediator_nodes, order)

KeepFiltered(lines, order) ==
    LET defined_nodes == DefinedNodes(lines)
        filtered_nodes == {n \in defined_nodes : IsFiltered(n)}
        mediator_nodes == {n \in defined_nodes : is_mediator_node(n)}
        unfiltered_nodes == (defined_nodes \ filtered_nodes) \ mediator_nodes
    IN  {f \in filtered_nodes :
            FoundUnfiltered(<<f>>, {f}, ParsedEdges(lines), unfiltered_nodes,
                            mediator_nodes, order)}

\* Phase 1c: the chain check of one mediator, a search through mediators only
RECURSIVE OtherReal(_, _, _, _, _, _, _)
OtherReal(chain_queue, chain_visited, other_real, post_edges, removed, real_nodes, ctx) ==
    IF chain_queue = <<>> THEN other_real
    ELSE LET cn == Head(chain_queue)
             nbs == (Adjacent(post_edges, cn) \ chain_visited) \ removed
         IN  OtherReal(Tail(chain_queue)
                          \o Ordered((nbs \ real_nodes) \cap ctx.mediator_nodes, ctx.order),
                       chain_visited \cup nbs, other_real \cup (nbs \cap real_nodes),
                       post_edges, removed, real_nodes, ctx)

\* whether the sweep keeps mediator med, given the mediators removed so far
MediatorKept(med, post_edges, removed, real_nodes, ctx) ==
    LET neighbours == Adjacent(post_edges, med)
        real_neighbours == neighbours \cap real_nodes
        mediator_neighbours == neighbours \cap (ctx.mediator_nodes \ removed)
    IN  \/ Cardinality(real_neighbours) >= 2
        \/ /\ Cardinality(real_neighbours) = 1
           /\ mediator_neighbours # {}
           /\ Cardinality(OtherReal(<<med>>, {med}, {}, post_edges, removed,
                                    real_nodes, ctx)) >= 2

\* one pass of the while loop over mediator_nodes - removed_mediator_set
RECURSIVE SweepPass(_, _, _, _, _)
SweepPass(meds, removed, post_edges, real_nodes, ctx) ==
    IF meds = <<>> THEN removed
    ELSE SweepPass(Tail(meds),
                   IF MediatorKept(Head(meds), post_edges, removed, real_nodes, ctx)
                   THEN removed ELSE removed \cup {Head(meds)},
                   post_edges, real_nodes, ctx)

\* while changed: ...
RECURSIVE RemovedMediatorSet(_, _, _, _)
RemovedMediatorSet(removed, surviving_edges, real_nodes, ctx) ==
    LET post_edges == {e \in surviving_edges : e[1] \notin removed /\ e[2] \notin removed}
        after == SweepPass(Ordered(ctx.mediator_nodes \ removed, ctx.order), removed,
                           post_edges, real_nodes, ctx)
    IN  IF after = removed THEN removed
        ELSE RemovedMediatorSet(after, surviving_edges, real_nodes, ctx)

\* Phase 2: connected component of the filtered+mediator subgraph
RECURSIVE Component(_, _)
Component(S, r_edges) ==
    LET T == S \cup UNION {Adjacent(r_edges, n) : n \in S}
    IN  IF T = S THEN S ELSE Component(T, r_edges)

\* components are taken up only from three kept filtered nodes on
RECURSIVE ComponentsKept_AtLeastThree(_, _, _, _, _, _)
ComponentsKept_AtLeastThree(starts, comp_visited, acc, r_edges, filtered_nodes, keep_filtered) ==
    IF starts = <<>> THEN acc
    ELSE IF Head(starts) \in comp_visited
         THEN ComponentsKept_AtLeastThree(Tail(starts), comp_visited, acc, r_edges,
                                          filtered_nodes, keep_filtered)
    ELSE LET comp == Component({Head(starts)}, r_edges)
             kept_in_comp == (comp \cap filtered_nodes) \cap keep_filtered
         IN  ComponentsKept_AtLeastThree(Tail(starts), comp_visited \cup comp,
                                         IF Cardinality(kept_in_comp) >= 3
                                         THEN Append(acc, kept_in_comp) ELSE acc,
                                         r_edges, filtered_nodes, keep_filtered)

RECURSIVE ComponentsKept(_, _, _, _, _, _)
ComponentsKept(starts, comp_visited, acc, r_edges, filtered_nodes, keep_filtered) ==
    IF starts = <<>> THEN acc
    ELSE IF Head(starts) \in comp_visited
         THEN ComponentsKept(Tail(starts), comp_visited, acc, r_edges,
                             filtered_nodes, keep_filtered)
    ELSE LET comp == Component({Head(starts)}, r_edges)
             kept_in_comp == (comp \cap filtered_nodes) \cap keep_filtered
         IN  ComponentsKept(Tail(starts), comp_visited \cup comp,
                            IF Cardinality(kept_in_comp) >= 2
                            THEN Append(acc, kept_in_comp) ELSE acc,
                            r_edges, filtered_nodes, keep_filtered)

\* the for loop over the neighbours of one inner_queue entry <<curr, pruned, fwd, bwd>>
RECURSIVE InnerNeighbours(_, _, _, _, _)
InnerNeighbours(f_node, entry, nbrs, s, ctx) ==
    IF nbrs = <<>> THEN s
    ELSE LET neighbour == Head(nbrs)
             is_fwd == <<entry[1], neighbour>> \in ctx.directed_pairs
             new_fwd == entry[3] + (IF is_fwd THEN 1 ELSE 0)
             new_bwd == entry[4] + (IF is_fwd THEN 0 ELSE 1)
             s1 == [s EXCEPT !.inner_visited = @ \cup {neighbour}]
             s2 == IF neighbour \in ctx.kept_set
                   THEN IF neighbour \notin s.tree_visited
                        THEN [s1 EXCEPT !.tree_visited = @ \cup {neighbour},
                                        !.tree_queue = Append(@, neighbour),
                                        !.indirect_edges =
                                            Append(@, IF new_fwd >= new_bwd
                                                      THEN <<f_node, neighbour, entry[2]>>
                                                      ELSE <<neighbour, f_node, entry[2]>>)]
                        ELSE s1
                   ELSE IF neighbour \in ctx.mediator_nodes
                   THEN [s1 EXCEPT !.inner_queue =
                                       Append(@, <<neighbour, entry[2], new_fwd, new_bwd>>)]
                   ELSE IF neighbour \in ctx.filtered_nodes
                   THEN [s1 EXCEPT !.inner_queue =
                                       Append(@, <<neighbour, entry[2] + 1, new_fwd, new_bwd>>)]
                   ELSE s1
         IN  InnerNeighbours(f_node, entry, Tail(nbrs),
                             IF neighbour \in s.inner_visited THEN s ELSE s2, ctx)

RECURSIVE InnerLoop(_, _, _)
InnerLoop(f_node, s, ctx) ==
    IF s.inner_queue = <<>> THEN s
    ELSE LET entry == Head(s.inner_queue)
         IN  InnerLoop(f_node,
                       InnerNeighbours(f_node, entry,
                                       Ordered(Adjacent(ctx.r_edges, entry[1]), ctx.order),
                                       [s EXCEPT !.inner_queue = Tail(@)], ctx),
                       ctx)

RECURSIVE TreeLoop(_, _)
TreeLoop(s, ctx) ==
    IF s.tree_queue = <<>> THEN s
    ELSE LET f_node == Head(s.tree_queue)
         IN  TreeLoop(InnerLoop(f_node,
                                [s EXCEPT !.tree_queue = Tail(@),
                                          !.inner_visited = {f_node},
                                          !.inner_queue = << <<f_node, 0, 0, 0>> >>],
                                ctx),
                      ctx)

\* root = next(iter(kept_set))
SpanningTreeRoot(kept_set, order) == Head(Ordered(kept_set, order))

RECURSIVE IndirectEdgesOf(_, _, _)
IndirectEdgesOf(components_kept, indirect_edges, ctx) ==
    IF components_kept = <<>> THEN indirect_edges
    ELSE LET kept_set == Head(components_kept)
             root == SpanningTreeRoot(kept_set, ctx.order)
             s == TreeLoop([tree_visited |-> {root}, tree_queue |-> <<root>>,
                            inner_visited |-> {}, inner_queue |-> <<>>,
                            indirect_edges |-> indirect_edges],
                           [ctx EXCEPT !.kept_set = kept_set])
         IN  IndirectEdgesOf(Tail(components_kept), s.indirect_edges, ctx)

IndirectEdges(lines, keep_filtered, order) ==
    LET defined_nodes == DefinedNodes(lines)
        filtered_nodes == {n \in defined_nodes : IsFiltered(n)}
        mediator_nodes == {n \in defined_nodes : is_mediator_node(n)}
        restricted == filtered_nodes \cup mediator_nodes
        r_edges == {e \in ParsedEdges(lines) : e[1] \in restricted /\ e[2] \in restricted}
        ctx == [order |-> order, mediator_nodes |-> mediator_nodes,
                filtered_nodes |-> filtered_nodes, kept_set |-> {},
                r_edges |-> r_edges,
                directed_pairs |-> {<<e[1], e[2]>> : e \in r_edges}]
    IN  IF Cardinality(keep_filtered) >= 2
        THEN IndirectEdgesOf(ComponentsKept(Ordered(filtered_nodes, order), {}, <<>>,
                                            r_edges, filtered_nodes, keep_filtered),
                             <<>>, ctx)
        ELSE <<>>

\* a dashed edge line that does not carry the count
DashedLine_Uncounted(e) == EdgeLine(e[1], e[2], [style |-> "dashed", via |-> 0])

\* the dashed edge line of one (src, dst, pruned_count)
DashedLine(e) == EdgeLine(e[1], e[2], [style |-> "dashed", via |-> e[3]])

\* the set of nodes the pass purges: the filtered nodes not kept and the
\* dangling mediators
NodesToPurge(lines, order) ==
    LET defined_nodes == DefinedNodes(lines)
        edges == ParsedEdges(lines)
        filtered_nodes == {n \in defined_nodes : IsFiltered(n)}
        mediator_nodes == {n \in defined_nodes : is_mediator_node(n)}
        unfiltered_nodes == (defined_nodes \ filtered_nodes) \ mediator_nodes
        keep_filtered == KeepFiltered(lines, order)
        to_remove == filtered_nodes \ keep_filtered
        surviving_edges == {e \in edges : e[1] \notin to_remove /\ e[2] \notin to_remove}
        real_nodes == unfiltered_nodes \cup keep_filtered
        ctx == [order |-> order, mediator_nodes |-> mediator_nodes]
    IN  to_remove \cup RemovedMediatorSet({}, surviving_edges, real_nodes, ctx)

prune_and_connect_filtered_nodes(lines, elements, order) ==
    LET defined_nodes == DefinedNodes(lines)
        filtered_nodes == {n \in defined_nodes : IsFiltered(n)}
        keep_filtered == KeepFiltered(lines, order)
        indirect_edges == IndirectEdges(lines, keep_filtered, order)
        all_nodes_to_purge == NodesToPurge(lines, order)
        output == SelectSeq(lines, LAMBDA l :
                      ~(\/ l.kind = "edge" /\ (l.id \in all_nodes_to_purge
                                               \/ l.tgt \in all_nodes_to_purge)
                        \/ l.kind = "node" /\ l.id \in all_nodes_to_purge))
        new_edge_lines == [k \in DOMAIN indirect_edges |-> DashedLine(indirect_edges[k])]
    IN  IF elements = {} \/ filtered_nodes = {} THEN lines
        ELSE IF indirect_edges = <<>> THEN output
        ELSE InsertBeforeClosing(output, new_edge_lines)

\* ------------------------------------------------------------------------
\* remove_duplicate_definitions
\* ------------------------------------------------------------------------
\* line.strip(): the text without the surrounding white space
Strip(line) == [line EXCEPT !.indent = 0]

\* line_stripped.startswith('"')
StartsWithQuote(line) == line.kind \in {"node", "edge"}

\* a pass that forgets a definition once it has skipped a copy of it
RECURSIVE DedupLoop_Forgetful(_, _, _)
DedupLoop_Forgetful(lines, seen_definitions, processed_lines) ==
    IF lines = <<>> THEN processed_lines
    ELSE LET line == Head(lines)
             line_stripped == Strip(line)
         IN  IF StartsWithQuote(line_stripped) /\ line_stripped \in seen_definitions
             THEN DedupLoop_Forgetful(Tail(lines), seen_definitions \ {line_stripped},
                                      processed_lines)
             ELSE DedupLoop_Forgetful(Tail(lines),
                                      IF StartsWithQuote(line_stripped)
                                      THEN seen_definitions \cup {line_stripped}
                                      ELSE seen_definitions,
                                      Append(processed_lines, line))

RECURSIVE DedupLoop(_, _, _)
DedupLoop(lines, seen_definitions, processed_lines) ==
    IF lines = <<>> THEN processed_lines
    ELSE LET line == Head(lines)
             line_stripped == Strip(line)
         IN  IF StartsWithQuote(line_stripped) /\ line_stripped \in seen_definitions
             THEN DedupLoop(Tail(lines), seen_definitions, processed_lines)
             ELSE DedupLoop(Tail(lines),
                            IF StartsWithQuote(line_stripped)
                            THEN seen_definitions \cup {line_stripped}
                            ELSE seen_definitions,
                            Append(processed_lines, line))

remove_duplicate_definitions(lines) == DedupLoop(lines, {}, <<>>)

\* ------------------------------------------------------------------------
\* The rewriting passes of create_dot on one DOT file
\* ------------------------------------------------------------------------
VARIABLES
    pc,                   \* the pass create_dot has just finished
    dot,                  \* the lines of the DOT file
    elements_to_exclude,  \* runtime setting: the excluded element ids
    before_redirect,      \* the file handed to redirect_or_remove_invalid_edges
    before_prune,         \* the file handed to prune_and_connect_filtered_nodes
    before_dedup,         \* the file handed to remove_duplicate_definitions
    before_reorganize,    \* the file handed to reorganize_dot_file
    dot_rerun,            \* the file of a second run of create_dot on the same input
    xml_root,             \* the parsed document, as the global toggles see it
    all_propositions,     \* the propositions parsed from the included files
    toggles,              \* runtime setting: the global toggles
    xml_before,           \* xml_root and all_propositions before the toggles ran
    written_lines,        \* the lines lowering keeps for the identifier generator
    allocated,            \* the ids the generator returned, with the file length then
    processed_elements,   \* the elements lowered so far
    before_fixup,         \* the file and the environment handed to fix_arrow_directions
    iteration_order,      \* pruning: the iteration order of the sets of this run
    f_todo,               \* pruning: the filtered nodes the for loop has not reached
    f_node,               \* pruning: the filtered node whose search is running
    queue,                \* pruning: the queue of that search
    visited,              \* pruning: the visited set of that search
    dequeued,             \* pruning: the nodes that search has taken from its queue
    found_unfiltered,     \* pruning: the flag of that search
    keep_filtered,        \* pruning: the filtered nodes found connected so far
    removed_mediator_set, \* pruning: the mediators the sweep has removed
    changed,              \* pruning: the flag of the while loop of the sweep
    rounds,               \* pruning: the rounds of the while loop so far
    load_outcome,         \* create_dot: how loading the primary document ends
    output_exists,        \* create_dot: whether the output file exists
    passes_run            \* create_dot: the stages that have run, in order

pipe_vars == <<pc, dot, elements_to_exclude, before_redirect, before_prune, before_dedup,
              before_reorganize>>

pipe_vars_but_pc == <<dot, elements_to_exclude, before_redirect, before_prune, before_dedup,
                     before_reorganize>>

rerun_vars == <<dot_rerun>>

toggle_vars == <<xml_root, all_propositions, toggles, xml_before>>

lower_vars == <<written_lines, allocated, processed_elements>>

fixup_vars == <<before_fixup>>

search_vars == <<iteration_order, f_todo, f_node, queue, visited, dequeued, found_unfiltered,
                 keep_filtered, removed_mediator_set, changed, rounds>>

run_vars == <<load_outcome, output_exists, passes_run>>

vars == <<pipe_vars, rerun_vars, toggle_vars, lower_vars, fixup_vars, search_vars, run_vars>>

\* the values of the variables a specification does not use
RerunIdle == dot_rerun = <<>>
FixupIdle == before_fixup = <<>>
RunIdle ==
    /\ load_outcome = "parsed"
    /\ output_exists = FALSE
    /\ passes_run = <<>>

SearchIdle ==
    /\ iteration_order = <<>>
    /\ f_todo = <<>>
    /\ f_node = <<>>
    /\ queue = <<>>
    /\ visited = {}
    /\ dequeued = <<>>
    /\ found_unfiltered = FALSE
    /\ keep_filtered = {}
    /\ removed_mediator_set = {}
    /\ changed = FALSE
    /\ rounds = 0

ToggleIdle ==
    /\ xml_root = <<>>
    /\ all_propositions = <<>>
    /\ toggles = <<>>
    /\ xml_before = <<>>

LowerIdle ==
    /\ written_lines = <<>>
    /\ allocated = <<>>
    /\ processed_elements = {}

\* the edges the lowering stage may have written, as (source, target)
CandidateEdges ==
    << <<T1, T1_to_T2_1>>, <<T1_to_T2_1, T2>>,
       <<T2, T2_analogy_to_T1_1>>, <<T2_analogy_to_T1_1, T1>>,
       <<S1, S1_func>>, <<S1_func, T2>>,
       <<T1_to_T2_1, S1_func>>, <<S1_func, T2_analogy_to_T1_1>>,
       <<T2_analogy_to_T1_1, S1>>, <<S1, T1_to_T2_1>>,
       <<T3, T1_to_T2_1>>, <<T2_analogy_to_T1_1, T3>>,
       <<T1, S1>>, <<S1, T2>>,
       <<T3, T3_referenced_in_T1_1>>, <<T3_referenced_in_T1_1, T1>> >>

NodeStyle(n) == IF n \in Mediators THEN "mediator" ELSE XmlTag(n)

\* the node definitions of the ids in B, in a fixed order
RECURSIVE NodeLinesOf(_, _)
NodeLinesOf(bases, B) ==
    IF bases = <<>> THEN <<>>
    ELSE (IF Head(bases) \in B
          THEN <<NodeLine(Head(bases), Attrs(NodeStyle(Head(bases))))>> ELSE <<>>)
         \o NodeLinesOf(Tail(bases), B)

RECURSIVE EdgeLinesOf(_, _)
EdgeLinesOf(k, I) ==
    IF k > Len(CandidateEdges) THEN <<>>
    ELSE (IF k \in I
          THEN <<EdgeLine(CandidateEdges[k][1], CandidateEdges[k][2], Attrs("solid"))>>
          ELSE <<>>)
         \o EdgeLinesOf(k + 1, I)

AllIds == <<T1, T2, S1, T3, S1_func, T1_to_T2_1, T2_analogy_to_T1_1,
            T3_referenced_in_T1_1>>

\* the mediators that the edges I mention: a mediator is written with its edges
UsedMediators(I) ==
    {m \in Mediators : \E k \in I : m \in {CandidateEdges[k][1], CandidateEdges[k][2]}}

\* the file reorganize_dot_file leaves: node definitions (of the elements in
\* D and of the mediators in use), the edges I, the closing brace.  An "IS
\* REFERENCED IN" node is written with the element it refers to and again,
\* indented, with the element that holds the reference.
ReorganizedFile(D, I) ==
    NodeLinesOf(AllIds, D \cup UsedMediators(I))
    \o (IF T3_referenced_in_T1_1 \in UsedMediators(I) /\ T1 \in D
        THEN <<[NodeLine(T3_referenced_in_T1_1, Attrs("mediator")) EXCEPT !.indent = 1]>>
        ELSE <<>>)
    \o EdgeLinesOf(1, I) \o <<CloseLine>>

\* orders in which one run may iterate its sets of node ids (the iteration
\* order of a Python set of strings changes from run to run)
Orders ==
    LET T1f == FilteredId(T1)
        T2f == FilteredId(T2)
        S1f == FilteredId(S1)
        Mf == S1_func
        Me == T1_to_T2_1
        Ma == T2_analogy_to_T1_1
        Mr == T3_referenced_in_T1_1
    IN  { <<T1f, T2f, S1f, Mf, Me, Ma, Mr>>, <<Mr, Ma, Me, Mf, S1f, T2f, T1f>>,
          <<S1f, Me, T1f, Mr, Ma, T2f, Mf>>, <<Mf, T2f, Ma, T1f, Mr, Me, S1f>> }

PipeInit ==
    \E D \in SUBSET {T1, T2, S1}, X \in SUBSET {T1, T2, S1},
       I \in SUBSET (1..Len(CandidateEdges)) :
        /\ X \subseteq D
        /\ Cardinality(I) <= MaxEdges
        /\ pc = "reorganize_dot_file"
        /\ dot = ReorganizedFile(D \cup {T3}, I)
        /\ elements_to_exclude = X
        /\ before_redirect = <<>>
        /\ before_prune = <<>>
        /\ before_reorganize = <<>>
        /\ before_dedup = <<>>

Init == PipeInit /\ RerunIdle /\ RunIdle /\ FixupIdle /\ SearchIdle /\ ToggleIdle /\ LowerIdle

\* if elements_to_exclude: remove_excluded_node_definitions(...)
RemoveExcludedNodeDefinitions ==
    /\ pc = "reorganize_dot_file"
    /\ pc' = "remove_excluded_node_definitions"
    /\ dot' = IF elements_to_exclude # {}
              THEN remove_excluded_node_definitions(dot, elements_to_exclude)
              ELSE dot
    /\ UNCHANGED <<elements_to_exclude, before_redirect, before_prune, before_dedup, before_reorganize>>
    /\ UNCHANGED <<rerun_vars, fixup_vars, run_vars, search_vars, toggle_vars, lower_vars>>

RedirectOrRemoveInvalidEdges ==
    /\ pc = "remove_excluded_node_definitions"
    /\ pc' = "redirect_or_remove_invalid_edges"
    /\ before_redirect' = dot
    /\ dot' = redirect_or_remove_invalid_edges(dot, elements_to_exclude)
    /\ UNCHANGED <<elements_to_exclude, before_prune, before_dedup, before_reorganize>>
    /\ UNCHANGED <<rerun_vars, fixup_vars, run_vars, search_vars, toggle_vars, lower_vars>>

\* if elements_to_exclude: prune_and_connect_filtered_nodes(...)
PruneAndConnectFilteredNodes ==
    /\ pc = "redirect_or_remove_invalid_edges"
    /\ pc' = "prune_and_connect_filtered_nodes"
    /\ before_prune' = dot
    /\ \E order \in Orders :
          dot' = IF elements_to_exclude # {}
                 THEN prune_and_connect_filtered_nodes(dot, elements_to_exclude, order)
                 ELSE dot
    /\ UNCHANGED <<elements_to_exclude, before_redirect, before_dedup, before_reorganize>>
    /\ UNCHANGED <<rerun_vars, fixup_vars, run_vars, search_vars, toggle_vars, lower_vars>>

RemoveDuplicateDefinitions ==
    /\ pc = "prune_and_connect_filtered_nodes"
    /\ pc' = "remove_duplicate_definitions"
    /\ before_dedup' = dot
    /\ dot' = remove_duplicate_definitions(dot)
    /\ UNCHANGED <<elements_to_exclude, before_redirect, before_prune, before_reorganize>>
    /\ UNCHANGED <<rerun_vars, fixup_vars, run_vars, search_vars, toggle_vars, lower_vars>>

Next ==
    \/ RemoveExcludedNodeDefinitions
    \/ RedirectOrRemoveInvalidEdges
    \/ PruneAndConnectFilteredNodes
    \/ RemoveDuplicateDefinitions

Spec == Init /\ [][Next]_vars

\* ------------------------------------------------------------------------
\* create_dot run twice on the same input
\* ------------------------------------------------------------------------
\* the passes of a second run, on the file the first run handed to
\* redirect_or_remove_invalid_edges, with the set iteration order of that run
CreateDotAgain ==
    /\ pc = "remove_duplicate_definitions"
    /\ pc' = "create_dot again"
    /\ \E order \in Orders :
          LET validated == redirect_or_remove_invalid_edges(before_redirect,
                                                            elements_to_exclude)
              pruned == IF elements_to_exclude # {}
                        THEN prune_and_connect_filtered_nodes(validated,
                                 elements_to_exclude, order)
                        ELSE validated
          IN  dot_rerun' = remove_duplicate_definitions(pruned)
    /\ UNCHANGED <<pipe_vars_but_pc, toggle_vars, lower_vars, fixup_vars, run_vars, search_vars>>

RerunNext ==
    \/ RemoveExcludedNodeDefinitions
    \/ RedirectOrRemoveInvalidEdges
    \/ PruneAndConnectFilteredNodes
    \/ RemoveDuplicateDefinitions
    \/ CreateDotAgain

SpecRerun == Init /\ [][RerunNext]_vars

\* ------------------------------------------------------------------------
\* The passes on files in which T1, T2 and S1 may all be excluded
\* ------------------------------------------------------------------------
\* the edges of CandidateEdges that join T1, S1 and T2 to each other and,
\* through mediators, to T3
IndirectCandidates == {1, 2, 3, 11, 12, 13, 14, 15, 16}

IndirectInit ==
    /\ \E X \in SUBSET {T1, T2, S1}, I \in SUBSET IndirectCandidates :
          /\ Cardinality(X) >= 2
          /\ pc = "reorganize_dot_file"
          /\ dot = ReorganizedFile({T1, T2, S1, T3}, I)
          /\ elements_to_exclude = X
          /\ before_redirect = <<>>
          /\ before_prune = <<>>
          /\ before_reorganize = <<>>
          /\ before_dedup = <<>>
    /\ RerunIdle /\ RunIdle /\ FixupIdle /\ SearchIdle /\ ToggleIdle /\ LowerIdle

SpecIndirect == IndirectInit /\ [][Next]_vars

\* ------------------------------------------------------------------------
\* prune_and_connect_filtered_nodes, one loop iteration at a time
\* ------------------------------------------------------------------------
\* the rounds of the while loop of the sweep that a run may start
MaxRounds == 5

\* the edges of CandidateEdges that join T1 and T2 to mediators, the
\* mediators to each other and to T3, with the cycle T1 -> T2 -> T1 through
\* two mediators
SearchCandidates == {1, 2, 3, 4, 7, 8, 11, 12}

\* --- Classify nodes ---
Classify(lines) ==
    LET defined_nodes == DefinedNodes(lines)
        filtered == {n \in defined_nodes : IsFiltered(n)}
        mediators == {n \in defined_nodes : is_mediator_node(n)}
    IN  [filtered_nodes |-> filtered, mediator_nodes |-> mediators,
         unfiltered_nodes |-> (defined_nodes \ filtered) \ mediators]

\* a while loop that goes on whether or not the round removed a mediator
StillChanging_Always(after, removed) == TRUE

\* changed: the round removed a mediator
StillChanging(after, removed) == after # removed

\* the file the pass writes, given the kept filtered nodes and the removed
\* mediators
RewrittenFile(lines, kept, removed, ord) ==
    LET all_nodes_to_purge == (Classify(lines).filtered_nodes \ kept) \cup removed
        indirect_edges == IndirectEdges(lines, kept, ord)
        output == SelectSeq(lines, LAMBDA l :
                      ~(\/ l.kind = "edge" /\ (l.id \in all_nodes_to_purge
                                               \/ l.tgt \in all_nodes_to_purge)
                        \/ l.kind = "node" /\ l.id \in all_nodes_to_purge))
        new_edge_lines == [k \in DOMAIN indirect_edges |-> DashedLine(indirect_edges[k])]
    IN  IF indirect_edges = <<>> THEN output
        ELSE InsertBeforeClosing(output, new_edge_lines)

\* the edges that survive the pruning of the filtered nodes not kept
SurvivingEdges(lines, kept) ==
    LET to_remove == Classify(lines).filtered_nodes \ kept
    IN  {e \in ParsedEdges(lines) : e[1] \notin to_remove /\ e[2] \notin to_remove}

\* one round of the while loop: the mediators removed after it
SweepRoundOf(lines, kept, removed, ord) ==
    LET c == Classify(lines)
        surviving_edges == SurvivingEdges(lines, kept)
        post_edges == {e \in surviving_edges : e[1] \notin removed /\ e[2] \notin removed}
    IN  SweepPass(Ordered(c.mediator_nodes \ removed, ord), removed, post_edges,
                  c.unfiltered_nodes \cup kept,
                  [order |-> ord, mediator_nodes |-> c.mediator_nodes])

SearchInit ==
    /\ \E X \in SUBSET {T1, T2}, I \in SUBSET SearchCandidates, o \in Orders :
          /\ X # {}
          /\ Cardinality(I) <= MaxEdges
          /\ pc = "redirect_or_remove_invalid_edges"
          /\ dot = redirect_or_remove_invalid_edges(
                       remove_excluded_node_definitions(
                           ReorganizedFile({T1, T2, S1, T3}, I), X), X)
          /\ elements_to_exclude = X
          /\ iteration_order = o
    /\ before_redirect = <<>>
    /\ before_prune = <<>>
    /\ before_reorganize = <<>>
    /\ before_dedup = <<>>
    /\ f_todo = <<>>
    /\ f_node = <<>>
    /\ queue = <<>>
    /\ visited = {}
    /\ dequeued = <<>>
    /\ found_unfiltered = FALSE
    /\ keep_filtered = {}
    /\ removed_mediator_set = {}
    /\ changed = FALSE
    /\ rounds = 0
    /\ RerunIdle /\ RunIdle /\ FixupIdle /\ ToggleIdle /\ LowerIdle

\* if not filtered_nodes: return
ReturnWithoutFilteredNodes ==
    /\ pc = "redirect_or_remove_invalid_edges"
    /\ Classify(dot).filtered_nodes = {}
    /\ pc' = "prune_and_connect_filtered_nodes"
    /\ before_prune' = dot
    /\ UNCHANGED <<dot, elements_to_exclude, before_redirect, before_dedup, before_reorganize>>
    /\ UNCHANGED <<rerun_vars, fixup_vars, run_vars, toggle_vars, lower_vars, search_vars>>

\* for f_node in filtered_nodes: the loop begins
StartPhase1a ==
    /\ pc = "redirect_or_remove_invalid_edges"
    /\ Classify(dot).filtered_nodes # {}
    /\ pc' = "phase 1a"
    /\ f_todo' = Ordered(Classify(dot).filtered_nodes, iteration_order)
    /\ UNCHANGED <<dot, elements_to_exclude, before_redirect, before_prune, before_dedup, before_reorganize>>
    /\ UNCHANGED <<iteration_order, f_node, queue, visited, dequeued, found_unfiltered,
                   keep_filtered, removed_mediator_set, changed, rounds>>
    /\ UNCHANGED <<rerun_vars, fixup_vars, run_vars, toggle_vars, lower_vars>>

\* visited = {f_node}; queue = deque([f_node]); found_unfiltered = False
StartFilteredSearch ==
    /\ pc = "phase 1a"
    /\ f_node = <<>>
    /\ f_todo # <<>>
    /\ f_node' = Head(f_todo)
    /\ f_todo' = Tail(f_todo)
    /\ visited' = {Head(f_todo)}
    /\ queue' = <<Head(f_todo)>>
    /\ dequeued' = <<>>
    /\ found_unfiltered' = FALSE
    /\ UNCHANGED <<iteration_order, keep_filtered, removed_mediator_set, changed, rounds>>
    /\ UNCHANGED <<pipe_vars, rerun_vars, fixup_vars, run_vars, toggle_vars, lower_vars>>

\* one iteration of "while queue and not found_unfiltered": the neighbours of
\* curr not yet visited are marked; an unfiltered one ends the search, the
\* mediators among them are queued
VisitNeighbours ==
    /\ pc = "phase 1a"
    /\ f_node # <<>>
    /\ queue # <<>>
    /\ ~found_unfiltered
    /\ LET curr == Head(queue)
           c == Classify(dot)
           nbs == Adjacent(ParsedEdges(dot), curr) \ visited
       IN  /\ dequeued' = Append(dequeued, curr)
           /\ visited' = visited \cup nbs
           /\ found_unfiltered' = (nbs \cap c.unfiltered_nodes # {})
           /\ queue' = IF nbs \cap c.unfiltered_nodes # {} THEN Tail(queue)
                       ELSE Tail(queue) \o Ordered(nbs \cap c.mediator_nodes, iteration_order)
    /\ UNCHANGED <<iteration_order, f_todo, f_node, keep_filtered, removed_mediator_set,
                   changed, rounds>>
    /\ UNCHANGED <<pipe_vars, rerun_vars, fixup_vars, run_vars, toggle_vars, lower_vars>>

\* if found_unfiltered: keep_filtered.add(f_node)
FinishFilteredSearch ==
    /\ pc = "phase 1a"
    /\ f_node # <<>>
    /\ queue = <<>> \/ found_unfiltered
    /\ keep_filtered' = IF found_unfiltered THEN keep_filtered \cup {f_node}
                        ELSE keep_filtered
    /\ f_node' = <<>>
    /\ queue' = <<>>
    /\ UNCHANGED <<iteration_order, f_todo, visited, dequeued, found_unfiltered,
                   removed_mediator_set, changed, rounds>>
    /\ UNCHANGED <<pipe_vars, rerun_vars, fixup_vars, run_vars, toggle_vars, lower_vars>>

\* changed = True; removed_mediator_set = set()
StartSweep ==
    /\ pc = "phase 1a"
    /\ f_node = <<>>
    /\ f_todo = <<>>
    /\ pc' = "phase 1c"
    /\ changed' = TRUE
    /\ removed_mediator_set' = {}
    /\ UNCHANGED <<iteration_order, f_todo, f_node, queue, visited, dequeued,
                   found_unfiltered, keep_filtered, rounds>>
    /\ UNCHANGED <<pipe_vars_but_pc, rerun_vars, fixup_vars, run_vars, toggle_vars, lower_vars>>

\* one round of "while changed"
SweepRound ==
    /\ pc = "phase 1c"
    /\ changed
    /\ rounds < MaxRounds
    /\ LET after == SweepRoundOf(dot, keep_filtered, removed_mediator_set, iteration_order)
       IN  /\ removed_mediator_set' = after
           /\ changed' = StillChanging(after, removed_mediator_set)
    /\ rounds' = rounds + 1
    /\ UNCHANGED <<iteration_order, f_todo, f_node, queue, visited, dequeued,
                   found_unfiltered, keep_filtered>>
    /\ UNCHANGED <<pipe_vars, rerun_vars, fixup_vars, run_vars, toggle_vars, lower_vars>>

\* the loop has ended: the file is rewritten
RewriteFile ==
    /\ pc = "phase 1c"
    /\ ~changed
    /\ pc' = "prune_and_connect_filtered_nodes"
    /\ before_prune' = dot
    /\ dot' = RewrittenFile(dot, keep_filtered, removed_mediator_set, iteration_order)
    /\ UNCHANGED <<elements_to_exclude, before_redirect, before_dedup, before_reorganize>>
    /\ UNCHANGED <<rerun_vars, fixup_vars, run_vars, toggle_vars, lower_vars, search_vars>>

SearchNext ==
    \/ ReturnWithoutFilteredNodes
    \/ StartPhase1a
    \/ StartFilteredSearch
    \/ VisitNeighbours
    \/ FinishFilteredSearch
    \/ StartSweep
    \/ SweepRound
    \/ RewriteFile

\* the statements of the loops of phases 1a and 1c
SearchLoops ==
    \/ ReturnWithoutFilteredNodes
    \/ StartPhase1a
    \/ StartFilteredSearch
    \/ VisitNeighbours
    \/ FinishFilteredSearch
    \/ StartSweep
    \/ SweepRound

\* the condition under which the statements after the while loop run
RewriteFileEnabled == pc = "phase 1c" /\ ~changed

\* the statements of the function run one after another until it returns:
\* the interpreter never stops between two statements.  The last conjunct is
\* WF_vars(RewriteFile) with ENABLED <<RewriteFile>>_vars written out as the
\* guard of RewriteFile, whose step always changes pc
SpecSearch ==
    /\ SearchInit /\ [][SearchNext]_vars
    /\ WF_vars(SearchLoops)
    /\ ([]<>(~RewriteFileEnabled) \/ []<><<RewriteFile>>_vars)

\* ------------------------------------------------------------------------
\* remove_duplicate_definitions run twice on an arbitrary file
\* ------------------------------------------------------------------------
MaxLines == 4

\* the lines a file may hold: a node definition at two indentations and with
\* another attribute list, a second node, an edge at two indentations, a
\* subgraph opening, a closing brace
OtherLine(text) == [kind |-> "other", id |-> <<text>>, tgt |-> NoId, attrs |-> Attrs(""),
                    indent |-> 0]

DedupAlphabet ==
    { NodeLine(T1, Attrs("THESIS")),
      [NodeLine(T1, Attrs("THESIS")) EXCEPT !.indent = 1],
      NodeLine(T1, Attrs("filtered THESIS")),
      NodeLine(T2, Attrs("THESIS")),
      EdgeLine(T1, T2, Attrs("solid")),
      [EdgeLine(T1, T2, Attrs("solid")) EXCEPT !.indent = 1],
      OtherLine("subgraph source_x {"),
      CloseLine }

RECURSIVE FilesUpTo(_)
FilesUpTo(n) ==
    IF n = 0 THEN {<<>>}
    ELSE LET shorter == FilesUpTo(n - 1)
         IN  shorter \cup {Append(f, l) : f \in {g \in shorter : Len(g) = n - 1},
                                           l \in DedupAlphabet}

DedupInit ==
    /\ pc = "prune_and_connect_filtered_nodes"
    /\ dot \in FilesUpTo(MaxLines)
    /\ elements_to_exclude = {}
    /\ before_redirect = <<>>
    /\ before_prune = <<>>
    /\ before_reorganize = <<>>
    /\ before_dedup = <<>>
    /\ RerunIdle /\ RunIdle /\ FixupIdle /\ SearchIdle /\ ToggleIdle /\ LowerIdle

\* a second call of remove_duplicate_definitions on the file the first one wrote
RemoveDuplicateDefinitionsAgain ==
    /\ pc = "remove_duplicate_definitions"
    /\ pc' = "remove_duplicate_definitions again"
    /\ dot' = remove_duplicate_definitions(dot)
    /\ UNCHANGED <<elements_to_exclude, before_redirect, before_prune, before_dedup, before_reorganize>>
    /\ UNCHANGED <<rerun_vars, fixup_vars, run_vars, search_vars, toggle_vars, lower_vars>>

DedupNext ==
    \/ RemoveDuplicateDefinitions
    \/ RemoveDuplicateDefinitionsAgain

SpecDedup == DedupInit /\ [][DedupNext]_vars

\* ------------------------------------------------------------------------
\* The global toggles of create_dot
\* ------------------------------------------------------------------------
\* xml_root, as far as the toggles can change it: whether a THESIS of the
\* document has a matchingProposition child and a sequence, and whether that
\* sequence holds a matchingPropositionSequence or matchingPropositionPhases
Documents ==
    {d \in [matchingProposition : BOOLEAN, sequence : BOOLEAN,
            matchingPropositionSequence : BOOLEAN,
            matchingPropositionPhases : BOOLEAN] :
        (d.matchingPropositionSequence \/ d.matchingPropositionPhases) => d.sequence}

\* all_propositions: proposition id -> whether the proposition has a sequence
PropositionFiles ==
    {<<>>} \cup [{"P1"} -> BOOLEAN] \cup [{"P1", "P2"} -> BOOLEAN]

Toggles ==
    [filter_propositions : BOOLEAN, filter_matching_proposition_sequences : BOOLEAN,
     filter_all_sequences : BOOLEAN]

\* steps (a), (b) and (c) of create_dot
apply_global_toggles(root, props, t) ==
    LET root_ab == IF t.filter_propositions
                   THEN [root EXCEPT !.matchingProposition = FALSE]
                   ELSE IF t.filter_matching_proposition_sequences
                        THEN [root EXCEPT !.matchingPropositionSequence = FALSE,
                                          !.matchingPropositionPhases = FALSE]
                        ELSE root
        props_ab == IF t.filter_propositions THEN <<>>
                    ELSE IF t.filter_matching_proposition_sequences
                         THEN [p \in DOMAIN props |-> FALSE]
                         ELSE props
        root_c == IF t.filter_all_sequences
                  THEN [root_ab EXCEPT !.sequence = FALSE,
                                       !.matchingPropositionSequence = FALSE,
                                       !.matchingPropositionPhases = FALSE]
                  ELSE root_ab
        props_c == IF t.filter_all_sequences /\ ~t.filter_propositions
                   THEN [p \in DOMAIN props_ab |-> FALSE]
                   ELSE props_ab
    IN  [xml_root |-> root_c, all_propositions |-> props_c]

ToggleInit ==
    /\ pc = "custom filters applied"
    /\ xml_root \in Documents
    /\ all_propositions \in PropositionFiles
    /\ toggles \in Toggles
    /\ xml_before = <<>>
    /\ dot = <<>>
    /\ elements_to_exclude = {}
    /\ before_redirect = <<>>
    /\ before_prune = <<>>
    /\ before_reorganize = <<>>
    /\ before_dedup = <<>>
    /\ RerunIdle /\ RunIdle /\ FixupIdle /\ SearchIdle /\ LowerIdle

ApplyGlobalToggles ==
    /\ pc = "custom filters applied"
    /\ pc' = "global toggles applied"
    /\ xml_before' = [xml_root |-> xml_root, all_propositions |-> all_propositions]
    /\ LET after == apply_global_toggles(xml_root, all_propositions, toggles)
       IN  /\ xml_root' = after.xml_root
           /\ all_propositions' = after.all_propositions
    /\ UNCHANGED <<toggles, pipe_vars_but_pc, rerun_vars, fixup_vars, run_vars, search_vars, lower_vars>>

ToggleNext == ApplyGlobalToggles

SpecToggle == ToggleInit /\ [][ToggleNext]_vars

\* ------------------------------------------------------------------------
\* The lowering stage: the pseudo-node identifier generator
\* ------------------------------------------------------------------------
\* number of empty omittedTargets children of a SUPPORT
MaxOmitted == 2

\* str(n)
Str(n) == <<"1", "2", "3", "4", "5", "6", "7", "8", "9">>[n]

\* suffix.isdigit()
IsDigit(suffix) == \E n \in 1..9 : Str(n) = suffix

\* int(suffix)
ToInt(suffix) == CHOOSE n \in 1..9 : Str(n) = suffix

\* f'"{unique_id}"' in line
QuotedIn(unique_id, line) ==
    \/ line.kind \in {"node", "edge"} /\ line.id = unique_id
    \/ line.kind = "edge" /\ line.tgt = unique_id

pseudo_node_exists(lines, unique_id) ==
    \E i \in DOMAIN lines : QuotedIn(unique_id, lines[i])

\* the branch of a generator for a suffix like "unspecified"
RECURSIVE StringSuffixLoop(_, _, _, _)
StringSuffixLoop(lines, unique_id, temp_unique_id, counter) ==
    IF pseudo_node_exists(lines, temp_unique_id)
    THEN StringSuffixLoop(lines, unique_id, Append(unique_id, Str(counter)), counter + 1)
    ELSE temp_unique_id

\* the branch of a generator for a numeric suffix
RECURSIVE NumericSuffixLoop(_, _, _)
NumericSuffixLoop(lines, stem, numeric_suffix) ==
    IF pseudo_node_exists(lines, Append(stem, Str(numeric_suffix)))
    THEN NumericSuffixLoop(lines, stem, numeric_suffix + 1)
    ELSE Append(stem, Str(numeric_suffix))

\* a generator whose counter for a string suffix starts at 2
GenerateUniqueId_CounterFromTwo(lines, stem, suffix) ==
    IF ~IsDigit(suffix)
    THEN StringSuffixLoop(lines, Append(stem, suffix), Append(stem, suffix), 2)
    ELSE NumericSuffixLoop(lines, stem, ToInt(suffix))

\* the body the generators share: stem is the id without its suffix
GenerateUniqueId(lines, stem, suffix) ==
    IF ~IsDigit(suffix)
    THEN StringSuffixLoop(lines, Append(stem, suffix), Append(stem, suffix), 1)
    ELSE NumericSuffixLoop(lines, stem, ToInt(suffix))

\* f"{element_id}_to_{target_ref}_{suffix}"
generate_unique_pseudo_node_id_targets(lines, element_id, target_ref, suffix) ==
    GenerateUniqueId(lines, element_id \o <<"to">> \o target_ref, suffix)

\* f"{entailed_by_ref}_to_{element_id}_{suffix}"
generate_unique_pseudo_node_id_entailments(lines, entailed_by_ref, element_id, suffix) ==
    GenerateUniqueId(lines, entailed_by_ref \o <<"to">> \o element_id, suffix)

\* f"{referenced_id}_referenced-in_{element_id}_{suffix}"
generate_unique_pseudo_node_id_references(lines, element_id, referenced_id, suffix) ==
    GenerateUniqueId(lines, referenced_id \o <<"referenced-in">> \o element_id, suffix)

\* ------------------------------------------------------------------------
\* The lowering stage: the THESIS and SUPPORT processors
\* ------------------------------------------------------------------------
\* The processors work on the file, on written_lines and on the record of the
\* ids the generator returned: st = [dot, written_lines, allocated].

\* dot_file.write(line_to_write); written_lines.append(line_to_write)
Write(st, line) ==
    [st EXCEPT !.dot = Append(@, line), !.written_lines = Append(@, line)]

\* dot_file.write(...) alone
WriteFileOnly(st, line) == [st EXCEPT !.dot = Append(@, line)]

\* the generator has returned unique_id when the file had Len(st.dot) lines
Returned(st, unique_id) ==
    [st EXCEPT !.allocated = Append(@, [id |-> unique_id, at |-> Len(st.dot)])]

ClusterLine(element_id) ==
    [kind |-> "cluster", id |-> element_id, tgt |-> NoId, attrs |-> Attrs(""),
     indent |-> 0]

\* a pseudo-node and its two edges: from_id -> pseudo-node -> to_id
WritePseudoNode(st, pseudo_node_id, label, from_id, to_id) ==
    Write(Write(Write(Returned(st, pseudo_node_id),
                      NodeLine(pseudo_node_id, Attrs(label))),
                EdgeLine(from_id, pseudo_node_id, Attrs("dir=none"))),
          EdgeLine(pseudo_node_id, to_id, Attrs("solid")))

\* the THESIS node (inside an Entailed cluster when the THESIS has an
\* entailment), then its entailment and its reference; NoId = no such relation
write_thesis_and_process_included_elements(st, element_id, entailed_by_ref, referenced_id) ==
    LET node_str == NodeLine(element_id, Attrs("THESIS"))
        st1 == IF entailed_by_ref # NoId
               THEN WriteFileOnly(WriteFileOnly(WriteFileOnly(WriteFileOnly(WriteFileOnly(
                        WriteFileOnly(st, ClusterLine(element_id)),
                        OtherLine("label=<Entailed>")), OtherLine("style=dotted")),
                        node_str), CloseLine), CloseLine)
               ELSE WriteFileOnly(st, node_str)
        st2 == IF entailed_by_ref # NoId
               THEN WritePseudoNode(st1,
                        generate_unique_pseudo_node_id_entailments(
                            st1.written_lines, entailed_by_ref, element_id, "1"),
                        "ENTAILS", entailed_by_ref, element_id)
               ELSE st1
    IN  IF referenced_id # NoId
        THEN WritePseudoNode(st2,
                 generate_unique_pseudo_node_id_references(
                     st2.written_lines, element_id, referenced_id, "1"),
                 "IS REFERENCED IN", referenced_id, element_id)
        ELSE st2

\* the function node and the edge from the SUPPORT, when not yet written
EnsureFuncNode(st, element_id, func_node_id) ==
    IF func_node_id = None
    THEN Write(Write(st, NodeLine(Append(element_id, "func"), Attrs("func"))),
               EdgeLine(element_id, Append(element_id, "func"), Attrs("dir=none")))
    ELSE st

process_explicit_targets(st, element_id, target_ref, func_node_id) ==
    IF target_ref = NoId THEN [st |-> st, func_node_id |-> func_node_id]
    ELSE [st |-> Write(EnsureFuncNode(st, element_id, func_node_id),
                       EdgeLine(Append(element_id, "func"), target_ref, Attrs("solid"))),
          func_node_id |-> Append(element_id, "func")]

\* Case 1 of process_omitted_targets, for n empty omittedTargets children
RECURSIVE process_omitted_targets(_, _, _, _)
process_omitted_targets(st, element_id, n, func_node_id) ==
    IF n = 0 THEN [st |-> st, func_node_id |-> func_node_id]
    ELSE LET pseudo_node_id == generate_unique_pseudo_node_id_targets(
                 st.written_lines, element_id, <<"omitted", "ELEMENTS">>, "unspecified")
             st1 == Write(Returned(st, pseudo_node_id),
                          NodeLine(pseudo_node_id, Attrs("omitted")))
             st2 == EnsureFuncNode(st1, element_id, func_node_id)
             st3 == Write(st2, EdgeLine(Append(element_id, "func"), pseudo_node_id,
                                        Attrs("solid")))
         IN  process_omitted_targets(st3, element_id, n - 1, Append(element_id, "func"))

\* the targets first, the SUPPORT node last
process_support_element(st, element_id, target_ref, n) ==
    LET explicit == process_explicit_targets(st, element_id, target_ref, None)
        omitted == process_omitted_targets(explicit.st, element_id, n,
                                           explicit.func_node_id)
    IN  WriteFileOnly(omitted.st, NodeLine(element_id, Attrs("SUPPORT")))

\* ------------------------------------------------------------------------
\* reorganize_dot_file
\* ------------------------------------------------------------------------
\* A Python dict is the sequence of its items [k, v] in insertion order.
Has(d, k) == \E i \in DOMAIN d : d[i].k = k

Get(d, k) == d[CHOOSE i \in DOMAIN d : d[i].k = k].v

Put(d, k, v) ==
    IF Has(d, k)
    THEN [i \in DOMAIN d |-> IF d[i].k = k THEN [k |-> k, v |-> v] ELSE d[i]]
    ELSE Append(d, [k |-> k, v |-> v])

\* '_to_' in node_id or '_in_etiology_in_' in node_id or
\* node_id.endswith('_func') or node_id.endswith('_employed')
IsSpecialNode(node_id) ==
    \/ Contains(node_id, <<"to">>)
    \/ Contains(node_id, <<"in", "etiology", "in">>)
    \/ EndsWith(node_id, "func")
    \/ EndsWith(node_id, "employed")

\* node_id.split('_referenced-in_'): the positions of the separator
ReferencedInAt(node_id) == {p \in 2..(Len(node_id) - 1) : node_id[p] = "referenced-in"}

\* the line carries source="..."
HasSourceAttr(line) == line.attrs.style \in {"THESIS", "SUPPORT", "omitted"}

\* the first loop over the lines: the node definitions
RECURSIVE ExtractNodes(_, _)
ExtractNodes(lines, s) ==
    IF lines = <<>> THEN s
    ELSE LET line == Head(lines)
             node_id == line.id
             s1 == IF line.attrs.style = "omitted"
                   THEN [s EXCEPT !.omitted_node_ids = @ \cup {node_id}] ELSE s
             p == CHOOSE q \in ReferencedInAt(node_id) : TRUE
             source_element == SubSeq(node_id, 1, p - 1)
             target_element == <<node_id[p + 1]>>
             s2 == IF /\ line.attrs.style = "IS REFERENCED IN"
                      /\ Cardinality(ReferencedInAt(node_id)) = 1
                   THEN [s1 EXCEPT
                           !.referenced_in_nodes =
                               Put(@, node_id, [node_line |-> line,
                                                source |-> source_element,
                                                target |-> target_element]),
                           !.node_to_source =
                               IF Has(@, source_element)
                               THEN Put(@, node_id, Get(@, source_element)) ELSE @]
                   ELSE s1
             s3 == [s2 EXCEPT
                      !.node_lines = Put(@, node_id, line),
                      !.node_to_source = IF HasSourceAttr(line)
                                         THEN Put(@, node_id, "src") ELSE @]
         IN  IF line.kind # "node" THEN ExtractNodes(Tail(lines), s)
             ELSE IF IsSpecialNode(node_id)
                  THEN ExtractNodes(Tail(lines),
                           [s1 EXCEPT !.special_node_lines = Put(@, node_id, line)])
                  ELSE ExtractNodes(Tail(lines), s3)

\* the second loop over the lines: the edges
RECURSIVE ExtractEdges(_, _, _)
ExtractEdges(lines, n, s) ==
    IF lines = <<>> THEN s
    ELSE LET line == Head(lines)
             edge_key == <<line.id, line.tgt>>
             s1 == [s EXCEPT
                      !.edge_lines = Put(@, edge_key, line),
                      !.func_edges =
                          IF EndsWith(line.id, "func")
                          THEN Put(@, line.id,
                                   Append(IF Has(@, line.id) THEN Get(@, line.id)
                                          ELSE <<>>, line))
                          ELSE @]
             known == Has(n.node_to_source, line.id) \/ Has(n.node_to_source, line.tgt)
         IN  IF line.kind # "edge" THEN ExtractEdges(Tail(lines), n, s)
             ELSE IF line.id \in n.omitted_node_ids \/ line.tgt \in n.omitted_node_ids
                  THEN ExtractEdges(Tail(lines), n,
                           [s1 EXCEPT !.omitted_node_edges = Append(@, line)])
                  ELSE IF known
                       THEN ExtractEdges(Tail(lines), n,
                                [s1 EXCEPT !.edge_to_source = Put(@, edge_key, "src")])
                       ELSE ExtractEdges(Tail(lines), n, s1)

\* special_id.startswith(node_id + '_')
StartsWithId(special_id, node_id) ==
    /\ Len(special_id) > Len(node_id)
    /\ SubSeq(special_id, 1, Len(node_id)) = node_id

\* special_id.endswith('_' + node_id)
EndsWithId(special_id, node_id) ==
    /\ Len(special_id) > Len(node_id)
    /\ SubSeq(special_id, Len(special_id) - Len(node_id) + 1, Len(special_id)) = node_id

\* the special nodes written with node_id, a function node with its edges
RECURSIVE SpecialNodesOf(_, _, _)
SpecialNodesOf(node_id, special_node_lines, func_edges) ==
    IF special_node_lines = <<>> THEN <<>>
    ELSE LET special_id == Head(special_node_lines).k
         IN  (IF StartsWithId(special_id, node_id) \/ EndsWithId(special_id, node_id)
              THEN <<Head(special_node_lines).v>>
                   \o (IF EndsWith(special_id, "func") /\ Has(func_edges, special_id)
                       THEN Get(func_edges, special_id) ELSE <<>>)
              ELSE <<>>)
             \o SpecialNodesOf(node_id, Tail(special_node_lines), func_edges)

\* the "IS REFERENCED IN" nodes written with node_id
RECURSIVE ReferencedInNodesOf(_, _)
ReferencedInNodesOf(node_id, referenced_in_nodes) ==
    IF referenced_in_nodes = <<>> THEN <<>>
    ELSE LET ref_info == Head(referenced_in_nodes).v
         IN  (IF ref_info.source = node_id \/ ref_info.target = node_id
              THEN <<ref_info.node_line>> ELSE <<>>)
             \o ReferencedInNodesOf(node_id, Tail(referenced_in_nodes))

\* clusters[f"cluster_{node_id}_ENTAILED"]["lines"] without the opening line
\* and the closing brace: the lines holding 'label=' or 'style='
ClusterBody(lines, node_id) ==
    LET i == CHOOSE k \in DOMAIN lines :
                 lines[k].kind = "cluster" /\ lines[k].id = node_id
        j == CHOOSE k \in (i + 1)..Len(lines) :
                 /\ lines[k].kind = "close"
                 /\ \A m \in (i + 1)..(k - 1) : lines[m].kind # "close"
    IN  SubSeq(lines, i + 1, j - 1)

\* no node of the model ends with the id of another element, so a node
\* without an Entailed cluster of its own has no associated cluster
add_node_and_cluster(node_id, node_line, lines, n, e) ==
    IF \E k \in DOMAIN lines : lines[k].kind = "cluster" /\ lines[k].id = node_id
    THEN <<ClusterLine(node_id)>> \o ClusterBody(lines, node_id) \o <<node_line>>
         \o SpecialNodesOf(node_id, n.special_node_lines, e.func_edges)
         \o <<CloseLine>>
    ELSE <<node_line>>
         \o SpecialNodesOf(node_id, n.special_node_lines, e.func_edges)
         \o ReferencedInNodesOf(node_id, n.referenced_in_nodes)

\* the opening line of the source subgraph and its label line
SourceOpening == <<OtherLine("subgraph source_x {"), OtherLine("label=\"x\";")>>

\* line_stripped.startswith('"') or line_stripped.startswith('subgraph ')
EndsHeader(line) ==
    line.kind \in {"node", "edge", "cluster"} \/ line = SourceOpening[1]

\* header_lines: everything before the first node, edge or subgraph
RECURSIVE HeaderLines(_)
HeaderLines(lines) ==
    IF lines = <<>> \/ EndsHeader(Head(lines)) THEN <<>>
    ELSE <<Head(lines)>> \o HeaderLines(Tail(lines))

\* the nodes of the source subgraph, each with what add_node_and_cluster
\* writes after it
RECURSIVE SourceNodes(_, _, _, _)
SourceNodes(node_to_source, lines, n, e) ==
    IF node_to_source = <<>> THEN <<>>
    ELSE LET node_id == Head(node_to_source).k
         IN  (IF Has(n.node_lines, node_id)
              THEN add_node_and_cluster(node_id, Get(n.node_lines, node_id), lines, n, e)
              ELSE <<>>)
             \o SourceNodes(Tail(node_to_source), lines, n, e)

\* source_subgraphs[source_id]["edges"]
SourceEdges(e) ==
    [i \in DOMAIN e.edge_to_source |-> Get(e.edge_lines, e.edge_to_source[i].k)]

\* for line in ...: if line not in placed_edges: new_lines.append(line)
RECURSIVE AppendUnplaced(_, _)
AppendUnplaced(new_lines, edges) ==
    IF edges = <<>> THEN new_lines
    ELSE AppendUnplaced(IF \E i \in DOMAIN new_lines : new_lines[i] = Head(edges)
                        THEN new_lines ELSE Append(new_lines, Head(edges)),
                        Tail(edges))

reorganize_dot_file(lines) ==
    LET n == ExtractNodes(lines, [omitted_node_ids |-> {}, special_node_lines |-> <<>>,
                                  referenced_in_nodes |-> <<>>, node_lines |-> <<>>,
                                  node_to_source |-> <<>>])
        e == ExtractEdges(lines, n, [edge_lines |-> <<>>, func_edges |-> <<>>,
                                     omitted_node_edges |-> <<>>,
                                     edge_to_source |-> <<>>])
        nodes == SourceNodes(n.node_to_source, lines, n, e)
        source == IF nodes = <<>> /\ SourceEdges(e) = <<>> THEN <<>>
                  ELSE AppendUnplaced(SourceOpening \o nodes, SourceEdges(e))
                       \o <<CloseLine>>
    IN  AppendUnplaced(HeaderLines(lines) \o source, e.omitted_node_edges)
        \o <<CloseLine>>

\* ------------------------------------------------------------------------
\* create_dot from the lowering of the elements to the final file
\* ------------------------------------------------------------------------
\* the elements of the document, in a source "x": the THESIS T1, T2 and
\* HomonymThesis, the SUPPORT S1
LoweredTheses == {T1, T2, HomonymThesis}

\* the elements a THESIS (T1 or T2) may be entailed by or refer to
RelatedTo(element_id) ==
    IF element_id \in {T1, T2} THEN {T1, T2} \ {element_id} ELSE {}

LowerInit ==
    /\ pc = "initialize_elements_clusters"
    /\ dot = <<OtherLine("digraph G {")>> \o SourceOpening
    /\ written_lines = <<>>
    /\ allocated = <<>>
    /\ processed_elements = {}
    /\ elements_to_exclude = {}
    /\ before_redirect = <<>>
    /\ before_prune = <<>>
    /\ before_reorganize = <<>>
    /\ before_dedup = <<>>
    /\ RerunIdle /\ RunIdle /\ FixupIdle /\ SearchIdle /\ ToggleIdle

LowerState == [dot |-> dot, written_lines |-> written_lines, allocated |-> allocated]

\* process_filtered_elements reaches a THESIS of the document
WriteThesis ==
    /\ pc = "initialize_elements_clusters"
    /\ \E element_id \in LoweredTheses \ processed_elements :
       \E entailed_by_ref \in RelatedTo(element_id) \cup {NoId} :
       \E referenced_id \in RelatedTo(element_id) \cup {NoId} :
          LET st == write_thesis_and_process_included_elements(
                        LowerState, element_id, entailed_by_ref, referenced_id)
          IN  /\ dot' = st.dot
              /\ written_lines' = st.written_lines
              /\ allocated' = st.allocated
              /\ processed_elements' = processed_elements \cup {element_id}
    /\ UNCHANGED <<pc, elements_to_exclude, before_redirect, before_prune, before_dedup, before_reorganize>>
    /\ UNCHANGED <<rerun_vars, fixup_vars, run_vars, search_vars, toggle_vars>>

\* process_filtered_elements reaches the SUPPORT of the document
ProcessSupport ==
    /\ pc = "initialize_elements_clusters"
    /\ S1 \notin processed_elements
    /\ \E target_ref \in {T2, NoId} : \E n \in 0..MaxOmitted :
          LET st == process_support_element(LowerState, S1, target_ref, n)
          IN  /\ dot' = st.dot
              /\ written_lines' = st.written_lines
              /\ allocated' = st.allocated
              /\ processed_elements' = processed_elements \cup {S1}
    /\ UNCHANGED <<pc, elements_to_exclude, before_redirect, before_prune, before_dedup, before_reorganize>>
    /\ UNCHANGED <<rerun_vars, fixup_vars, run_vars, search_vars, toggle_vars>>

\* the end of the source subgraph and of the graph, then the passes
\* create_dot runs when no element is excluded
PostProcess ==
    /\ pc = "initialize_elements_clusters"
    /\ pc' = "create_dot"
    /\ LET written == dot \o <<CloseLine, CloseLine>>
           reorganized == reorganize_dot_file(written)
           validated == redirect_or_remove_invalid_edges(reorganized, {})
       IN  /\ before_reorganize' = written
           /\ before_redirect' = reorganized
           /\ before_dedup' = validated
           /\ dot' = remove_duplicate_definitions(validated)
    /\ UNCHANGED <<elements_to_exclude, before_prune>>
    /\ UNCHANGED <<rerun_vars, fixup_vars, run_vars, search_vars, toggle_vars, lower_vars>>

LowerNext ==
    \/ WriteThesis
    \/ ProcessSupport
    \/ PostProcess

SpecLower == LowerInit /\ [][LowerNext]_vars

\* ------------------------------------------------------------------------
\* The identifier generator called again and again on one set of lines
\* ------------------------------------------------------------------------
\* the number of calls of the generator in one run
MaxCalls == 3

\* f"{element_id}_to_{target_ref}": the stems of the ids asked for; the
\* second one is the first one followed by "unspecified"
GeneratorStems ==
    {S1 \o <<"to">> \o <<"omitted", "ELEMENTS">>,
     S1 \o <<"to">> \o <<"omitted", "ELEMENTS", "unspecified">>}

\* the seeds: the integers 1 and 2 and the string "unspecified"
GeneratorSeeds == {"1", "2", "unspecified"}

\* the ids a line written before the first call may define
EarlierIds ==
    {Append(stem, suffix) : stem \in GeneratorStems, suffix \in {"2", "3", "unspecified"}}

GeneratorInit ==
    /\ pc = "generate_unique_pseudo_node_id"
    /\ \E earlier \in {<<>>} \cup {<<NodeLine(n, Attrs("omitted"))>> : n \in EarlierIds} :
          /\ dot = earlier
          /\ written_lines = earlier
    /\ allocated = <<>>
    /\ processed_elements = {}
    /\ elements_to_exclude = {}
    /\ before_redirect = <<>>
    /\ before_prune = <<>>
    /\ before_reorganize = <<>>
    /\ before_dedup = <<>>
    /\ RerunIdle /\ RunIdle /\ FixupIdle /\ SearchIdle /\ ToggleIdle

\* one call of generate_unique_pseudo_node_id_targets, whose caller writes
\* the node line of the id it got
GenerateId ==
    /\ pc = "generate_unique_pseudo_node_id"
    /\ Len(allocated) < MaxCalls
    /\ \E stem \in GeneratorStems, suffix \in GeneratorSeeds :
          LET unique_id == GenerateUniqueId(written_lines, stem, suffix)
              st == Write(LowerState, NodeLine(unique_id, Attrs("omitted")))
          IN  /\ allocated' = Append(allocated,
                                     [id |-> unique_id, at |-> Len(written_lines),
                                      stem |-> stem, suffix |-> suffix])
              /\ dot' = st.dot
              /\ written_lines' = st.written_lines
    /\ UNCHANGED <<pc, processed_elements, elements_to_exclude, before_redirect, before_prune,
                   before_dedup, before_reorganize>>
    /\ UNCHANGED <<rerun_vars, fixup_vars, run_vars, search_vars, toggle_vars>>

GeneratorNext == GenerateId

SpecGenerator == GeneratorInit /\ [][GeneratorNext]_vars

\* ------------------------------------------------------------------------
\* create_dot from the loading of the document to its return
\* ------------------------------------------------------------------------
\* how ET.parse(xml_filename, parser) may end
LoadOutcomes == {"parsed", "ParseError", "FileNotFoundError", "Exception"}

\* a try block that handles ET.ParseError only
LoadFailed_ParseErrorOnly(outcome) == outcome = "ParseError"

\* try: ... except ET.ParseError / FileNotFoundError / Exception: return
LoadFailed(outcome) == outcome # "parsed"

\* a statement sequence that calls the pruning before the edge validation
NextPass_PruneBeforeValidation(finished, elements) ==
    CASE finished = "initialize_elements_clusters" -> "replace_original_xml_ids"
      [] finished = "replace_original_xml_ids" -> "detect_and_fix_tuple_node_ids"
      [] finished = "detect_and_fix_tuple_node_ids" -> "reorganize_dot_file"
      [] finished = "reorganize_dot_file" ->
            IF elements # {} THEN "remove_excluded_node_definitions"
            ELSE "redirect_or_remove_invalid_edges"
      [] finished = "remove_excluded_node_definitions" -> "prune_and_connect_filtered_nodes"
      [] finished = "prune_and_connect_filtered_nodes" -> "redirect_or_remove_invalid_edges"
      [] finished = "redirect_or_remove_invalid_edges" -> "remove_duplicate_definitions"
      [] finished = "remove_duplicate_definitions" -> "normalize_dot_file_line_breaks"
      [] OTHER -> "return dot_filename"

\* the statement of create_dot that follows the statement that has finished
NextPass(finished, elements) ==
    CASE finished = "initialize_elements_clusters" -> "replace_original_xml_ids"
      [] finished = "replace_original_xml_ids" -> "detect_and_fix_tuple_node_ids"
      [] finished = "detect_and_fix_tuple_node_ids" -> "reorganize_dot_file"
      [] finished = "reorganize_dot_file" ->
            IF elements # {} THEN "remove_excluded_node_definitions"
            ELSE "redirect_or_remove_invalid_edges"
      [] finished = "remove_excluded_node_definitions" -> "redirect_or_remove_invalid_edges"
      [] finished = "redirect_or_remove_invalid_edges" ->
            IF elements # {} THEN "prune_and_connect_filtered_nodes"
            ELSE "remove_duplicate_definitions"
      [] finished = "prune_and_connect_filtered_nodes" -> "remove_duplicate_definitions"
      [] finished = "remove_duplicate_definitions" -> "normalize_dot_file_line_breaks"
      [] OTHER -> "return dot_filename"

\* the edges of CandidateEdges the lowering of a run may write
CreateDotCandidates == {1, 2, 11, 13, 15, 16}

\* the file an earlier run left under dot_filename
EarlierArtifact == <<OtherLine("digraph G {"), NodeLine(T3, Attrs("THESIS")), CloseLine>>

\* the file as lowering leaves it: the header, the source subgraph with the
\* nodes and the edges, the two closing braces
LoweredFile(I) ==
    <<OtherLine("digraph G {")>> \o SourceOpening
    \o NodeLinesOf(AllIds, {T1, T2, S1, T3} \cup UsedMediators(I))
    \o EdgeLinesOf(1, I) \o <<CloseLine, CloseLine>>

CreateDotInit ==
    /\ pc = "create_dot"
    /\ load_outcome \in LoadOutcomes
    /\ output_exists \in BOOLEAN
    /\ dot = IF output_exists THEN EarlierArtifact ELSE <<>>
    /\ elements_to_exclude \in SUBSET {T1, S1}
    /\ passes_run = <<>>
    /\ before_redirect = <<>>
    /\ before_prune = <<>>
    /\ before_reorganize = <<>>
    /\ before_dedup = <<>>
    /\ RerunIdle /\ FixupIdle /\ SearchIdle /\ ToggleIdle /\ LowerIdle

\* except ...: print(...); return
ReturnOnLoadError ==
    /\ pc = "create_dot"
    /\ LoadFailed(load_outcome)
    /\ pc' = "return"
    /\ UNCHANGED <<pipe_vars_but_pc, load_outcome, output_exists, passes_run>>
    /\ UNCHANGED <<rerun_vars, fixup_vars, search_vars, toggle_vars, lower_vars>>

\* with open(dot_filename, 'w') as dot_file: the header, the lowering of
\* the elements, the closing brace
InitializeElementsClusters ==
    /\ pc = "create_dot"
    /\ ~LoadFailed(load_outcome)
    /\ pc' = "initialize_elements_clusters"
    /\ output_exists' = TRUE
    /\ \E I \in SUBSET CreateDotCandidates :
          /\ Cardinality(I) <= MaxEdges
          /\ dot' = LoweredFile(I)
    /\ passes_run' = Append(passes_run, "initialize_elements_clusters")
    /\ UNCHANGED <<elements_to_exclude, before_redirect, before_prune, before_dedup,
                   before_reorganize, load_outcome>>
    /\ UNCHANGED <<rerun_vars, fixup_vars, search_vars, toggle_vars, lower_vars>>

\* replace_original_xml_ids(dot_filename): the files of this specification
\* hold no original_xml_id attribute, and the pass writes back what it read
ReplaceOriginalXmlIds ==
    /\ NextPass(pc, elements_to_exclude) = "replace_original_xml_ids"
    /\ pc' = "replace_original_xml_ids"
    /\ passes_run' = Append(passes_run, "replace_original_xml_ids")
    /\ UNCHANGED <<pipe_vars_but_pc, load_outcome, output_exists>>
    /\ UNCHANGED <<rerun_vars, fixup_vars, search_vars, toggle_vars, lower_vars>>

\* detect_and_fix_tuple_node_ids(dot_filename): the files of this
\* specification hold no id of the shape of a tuple
DetectAndFixTupleNodeIds ==
    /\ NextPass(pc, elements_to_exclude) = "detect_and_fix_tuple_node_ids"
    /\ pc' = "detect_and_fix_tuple_node_ids"
    /\ passes_run' = Append(passes_run, "detect_and_fix_tuple_node_ids")
    /\ UNCHANGED <<pipe_vars_but_pc, load_outcome, output_exists>>
    /\ UNCHANGED <<rerun_vars, fixup_vars, search_vars, toggle_vars, lower_vars>>

\* reorganize_dot_file(dot_filename)
ReorganizeDotFile ==
    /\ NextPass(pc, elements_to_exclude) = "reorganize_dot_file"
    /\ pc' = "reorganize_dot_file"
    /\ before_reorganize' = dot
    /\ dot' = reorganize_dot_file(dot)
    /\ passes_run' = Append(passes_run, "reorganize_dot_file")
    /\ UNCHANGED <<elements_to_exclude, before_redirect, before_prune, before_dedup,
                   load_outcome, output_exists>>
    /\ UNCHANGED <<rerun_vars, fixup_vars, search_vars, toggle_vars, lower_vars>>

\* remove_excluded_node_definitions(dot_filename, elements_to_exclude)
RunRemoveExcludedNodeDefinitions ==
    /\ NextPass(pc, elements_to_exclude) = "remove_excluded_node_definitions"
    /\ pc' = "remove_excluded_node_definitions"
    /\ dot' = remove_excluded_node_definitions(dot, elements_to_exclude)
    /\ passes_run' = Append(passes_run, "remove_excluded_node_definitions")
    /\ UNCHANGED <<elements_to_exclude, before_redirect, before_prune, before_dedup,
                   before_reorganize, load_outcome, output_exists>>
    /\ UNCHANGED <<rerun_vars, fixup_vars, search_vars, toggle_vars, lower_vars>>

\* redirect_or_remove_invalid_edges(dot_filename, xml_filename, namespaces, ...)
RunRedirectOrRemoveInvalidEdges ==
    /\ NextPass(pc, elements_to_exclude) = "redirect_or_remove_invalid_edges"
    /\ pc' = "redirect_or_remove_invalid_edges"
    /\ before_redirect' = dot
    /\ dot' = redirect_or_remove_invalid_edges(dot, elements_to_exclude)
    /\ passes_run' = Append(passes_run, "redirect_or_remove_invalid_edges")
    /\ UNCHANGED <<elements_to_exclude, before_prune, before_dedup, before_reorganize,
                   load_outcome, output_exists>>
    /\ UNCHANGED <<rerun_vars, fixup_vars, search_vars, toggle_vars, lower_vars>>

\* prune_and_connect_filtered_nodes(dot_filename, elements_to_exclude)
RunPruneAndConnectFilteredNodes ==
    /\ NextPass(pc, elements_to_exclude) = "prune_and_connect_filtered_nodes"
    /\ pc' = "prune_and_connect_filtered_nodes"
    /\ before_prune' = dot
    /\ \E iteration \in Orders :
          dot' = prune_and_connect_filtered_nodes(dot, elements_to_exclude, iteration)
    /\ passes_run' = Append(passes_run, "prune_and_connect_filtered_nodes")
    /\ UNCHANGED <<elements_to_exclude, before_redirect, before_dedup, before_reorganize,
                   load_outcome, output_exists>>
    /\ UNCHANGED <<rerun_vars, fixup_vars, search_vars, toggle_vars, lower_vars>>

\* remove_duplicate_definitions(dot_filename)
RunRemoveDuplicateDefinitions ==
    /\ NextPass(pc, elements_to_exclude) = "remove_duplicate_definitions"
    /\ pc' = "remove_duplicate_definitions"
    /\ before_dedup' = dot
    /\ dot' = remove_duplicate_definitions(dot)
    /\ passes_run' = Append(passes_run, "remove_duplicate_definitions")
    /\ UNCHANGED <<elements_to_exclude, before_redirect, before_prune, before_reorganize,
                   load_outcome, output_exists>>
    /\ UNCHANGED <<rerun_vars, fixup_vars, search_vars, toggle_vars, lower_vars>>

\* normalize_dot_file_line_breaks(dot_filename): the pass changes blank
\* lines and trailing blanks only, which the lines of the model do not hold
NormalizeDotFileLineBreaks ==
    /\ NextPass(pc, elements_to_exclude) = "normalize_dot_file_line_breaks"
    /\ pc' = "normalize_dot_file_line_breaks"
    /\ passes_run' = Append(passes_run, "normalize_dot_file_line_breaks")
    /\ UNCHANGED <<pipe_vars_but_pc, load_outcome, output_exists>>
    /\ UNCHANGED <<rerun_vars, fixup_vars, search_vars, toggle_vars, lower_vars>>

\* except NameError: print(...), then return dot_filename; except Exception:
\* print(...); return None -- the pass that was to run raised before it
\* wrote the file
ReturnOnException ==
    /\ NextPass(pc, elements_to_exclude) # "return dot_filename"
    /\ pc' \in {"return None", "return dot_filename"}
    /\ UNCHANGED <<pipe_vars_but_pc, load_outcome, output_exists, passes_run>>
    /\ UNCHANGED <<rerun_vars, fixup_vars, search_vars, toggle_vars, lower_vars>>

CreateDotNext ==
    \/ ReturnOnLoadError
    \/ InitializeElementsClusters
    \/ ReplaceOriginalXmlIds
    \/ DetectAndFixTupleNodeIds
    \/ ReorganizeDotFile
    \/ RunRemoveExcludedNodeDefinitions
    \/ RunRedirectOrRemoveInvalidEdges
    \/ RunPruneAndConnectFilteredNodes
    \/ RunRemoveDuplicateDefinitions
    \/ NormalizeDotFileLineBreaks
    \/ ReturnOnException

SpecCreateDot == CreateDotInit /\ [][CreateDotNext]_vars

\* ------------------------------------------------------------------------
\* The document filters of create_dot
\* ------------------------------------------------------------------------
\* the most matchingPropositionSequence children of the sequence of T1 and
\* the most matchingPropositionPhases children of its first phase
MaxSiblings == 3

\* parent.remove(child) for the children at the given positions
RemoveChildren(children, positions) ==
    LET kept == {i \in DOMAIN children : i \notin positions}
    IN  [i \in 1..Cardinality(kept) |->
            children[CHOOSE j \in kept : Cardinality({k \in kept : k <= j}) = i]]

\* The part of xml_root the custom filters read. T2 is a THESIS inside T1, T3
\* a THESIS of its own. For each THESIS: the propRefs of the
\* matchingProposition elements whose nearest THESIS it is; the
\* matchingPropositionSequence children of its sequence in document order,
\* each [sequenceRef, n] where n names the element; and the phases of that
\* sequence, each the list of its matchingPropositionPhases children (numbers
\* name the elements).
CustomDocuments ==
    LET Records(len) == {[i \in 1..len |-> [sequenceRef |-> f[i], n |-> i]] :
                            f \in [1..len -> {"Q1", "Q2"}]}
        Phase(len) == [i \in 1..len |-> i]
    IN  {[matchingProposition |-> (T1 :> mp1) @@ (T2 :> mp2) @@ (T3 :> {"P1"}),
          matchingPropositionSequence |->
              (T1 :> ms1) @@ (T2 :> ms2) @@ (T3 :> <<[sequenceRef |-> "Q1", n |-> 1]>>),
          phase |-> (T1 :> <<Phase(k1), Phase(k2)>>) @@ (T2 :> <<Phase(k3)>>)
                    @@ (T3 :> <<Phase(1)>>)] :
            mp1 \in {{}, {"P1"}, {"P1", "P2"}}, mp2 \in {{}, {"P1"}},
            ms1 \in UNION {Records(len) : len \in 0..MaxSiblings},
            ms2 \in {<<>>} \cup Records(1),
            k1 \in 0..MaxSiblings, k2 \in 0..1, k3 \in 0..2}

\* all_propositions for the custom filters: proposition id -> the xml:ids of
\* the sequences of the proposition
CustomPropositionFiles ==
    {("P1" :> {"Q1"}) @@ ("P2" :> {"Q2"}), ("P1" :> {"Q1"})}

\* the maps parse_custom_prop_filters and parse_custom_seq_phase_filters
\* return, as dicts {proposition or sequence id: thesis ids}
CustomFilterMaps ==
    LET Item(key, ids) == [k |-> key, v |-> ids]
    IN  {[custom_prop_filters |-> pf, custom_seq_phase_filters |-> sf] :
            pf \in {<<>>, <<Item("P1", {T1})>>, <<Item("P1", {T2})>>,
                    <<Item("P1", {T1, T3})>>,
                    <<Item("P1", {T1}), Item("P2", {T1})>>,
                    <<Item("P2", {T1}), Item("P1", {T1, T2})>>},
            sf \in {<<>>, <<Item("Q2", {T1}), Item("Q1", {T2, T3})>>}}

\* the matchingPropositionPhases child removed from a phase with
\* num_mpp_siblings children for the removed sequence record that was child
\* number removed_index (from 0) of num_m_seq_siblings: its position, or none
phase_to_remove_Single(removed_index, num_m_seq_siblings, num_mpp_siblings) ==
    IF num_mpp_siblings = 1 THEN {1}
    ELSE IF num_mpp_siblings >= 1 /\ removed_index < num_mpp_siblings
         THEN {removed_index + 1}
         ELSE {}

phase_to_remove(removed_index, num_m_seq_siblings, num_mpp_siblings) ==
    IF num_m_seq_siblings = 1 /\ num_mpp_siblings = 1 THEN {1}
    ELSE IF num_mpp_siblings >= 1 /\ removed_index < num_mpp_siblings
         THEN {removed_index + 1}
         ELSE {}

\* the second pass for the sequence of THESIS u: items_to_remove holds the
\* positions of the matchingPropositionSequence children to remove
process_parent_sequence_FirstOnly(root, u, items_to_remove) ==
    LET first == {i \in items_to_remove : \A j \in items_to_remove : i <= j}
    IN  [root EXCEPT !.matchingPropositionSequence[u] = RemoveChildren(@, first)]

process_parent_sequence(root, u, items_to_remove) ==
    LET num_m_seq_siblings == Len(root.matchingPropositionSequence[u])
        phases_to_remove(mpp_siblings) ==
            UNION {phase_to_remove(i - 1, num_m_seq_siblings, Len(mpp_siblings)) :
                      i \in items_to_remove}
    IN  [root EXCEPT
            !.matchingPropositionSequence[u] = RemoveChildren(@, items_to_remove),
            !.phase[u] = [k \in DOMAIN @ |->
                             RemoveChildren(@[k], phases_to_remove(@[k]))]]

\* the THESIS elements that t.xpath('.//...') searches: t and the THESIS
\* elements inside it
ThesesWithin(t) ==
    {u \in {T1, T2, T3} :
        u = t \/ \E i \in DOMAIN XmlThesisAncestors(u) : XmlThesisAncestors(u)[i] = t}

RECURSIVE ProcessParentSequences(_, _, _)
\* process_parent_sequence for each THESIS of todo, items(u) being its items
ProcessParentSequences(root, todo, items) ==
    IF todo = {} THEN root
    ELSE LET u == CHOOSE x \in todo : TRUE
         IN  ProcessParentSequences(
                 IF items[u] = {} THEN root
                 ELSE process_parent_sequence(root, u, items[u]),
                 todo \ {u}, items)

apply_custom_prop_filters(root, props, custom_prop_filters_map) ==
    LET Theses == DOMAIN root.matchingProposition
        \* Action 1: the matchingProposition elements to remove
        matching_props_to_remove(t) ==
            {p \in root.matchingProposition[t] :
                Has(custom_prop_filters_map, p) /\ t \in Get(custom_prop_filters_map, p)}
        affected_thesis_elements(p) == {t \in Theses : p \in matching_props_to_remove(t)}
        \* Action 2: the sequences of the propositions that led to a removal
        target_sequence_ids(p) ==
            IF affected_thesis_elements(p) # {} /\ p \in DOMAIN props THEN props[p] ELSE {}
        \* Action 3, first pass for proposition p under an affected THESIS:
        \* the records of the sequence of u that refer to a sequence of p
        items(u, p) ==
            {i \in DOMAIN root.matchingPropositionSequence[u] :
                root.matchingPropositionSequence[u][i].sequenceRef \in target_sequence_ids(p)}
        Queues(u, k) ==
            LET p == custom_prop_filters_map[k].k
            IN  /\ items(u, p) # {}
                /\ \E t \in affected_thesis_elements(p) : u \in ThesesWithin(t)
        \* a parent sequence is processed once, for the first key of the map
        \* that queues it (processed_parent_sequences_prop_filter)
        items_to_remove ==
            [u \in Theses |->
                IF \E k \in DOMAIN custom_prop_filters_map : Queues(u, k)
                THEN items(u, custom_prop_filters_map[
                         CHOOSE k \in DOMAIN custom_prop_filters_map :
                             Queues(u, k) /\ \A j \in 1..(k - 1) : ~Queues(u, j)].k)
                ELSE {}]
        after_action_1 ==
            [root EXCEPT !.matchingProposition =
                [t \in Theses |-> root.matchingProposition[t] \ matching_props_to_remove(t)]]
    IN  ProcessParentSequences(after_action_1, Theses, items_to_remove)

apply_custom_seq_phase_filters(root, seq_to_thesis_map) ==
    LET Theses == DOMAIN root.matchingPropositionSequence
        \* first pass: the records whose sequenceRef is a key of the map and
        \* whose nearest THESIS is listed for it
        items_to_remove ==
            [u \in Theses |->
                {i \in DOMAIN root.matchingPropositionSequence[u] :
                    LET seq_ref_id == root.matchingPropositionSequence[u][i].sequenceRef
                    IN  /\ Has(seq_to_thesis_map, seq_ref_id)
                        /\ u \in Get(seq_to_thesis_map, seq_ref_id)}]
    IN  ProcessParentSequences(root, Theses, items_to_remove)

\* The part of xml_root that extrinsic removal and the thesis-focus filter
\* read: a tree of elements named by their xml:id,
\*    root > source > a > a1, a2;  source > b > b1;  source > c;  root > n
getparent(e) ==
    CASE e \in {"a", "b", "c"} -> "source"
      [] e \in {"a1", "a2"} -> "a"
      [] e = "b1" -> "b"
      [] e \in {"source", "n"} -> "root"
      [] OTHER -> "none"

\* xpath('ancestor::*')
AncestorsOf(e) ==
    {getparent(e), getparent(getparent(e)), getparent(getparent(getparent(e)))}
        \ {"none"}

\* the trees: every element but root and source is a THESIS or a SUPPORT,
\* and a2 and c may carry extrinsic="true"
TreeDocuments ==
    {[elements |-> {"root", "source", "a", "a1", "a2", "b", "b1", "c", "n"},
      tag |-> ("root" :> "TheSu") @@ ("source" :> "source") @@ tags,
      extrinsic |-> ex] :
        tags \in [{"a", "a1", "a2", "b", "b1", "c", "n"} -> {"THESIS", "SUPPORT"}],
        ex \in SUBSET {"a2", "c"}}

\* the settings filter_extrinsic_elements and thesis_focus_id
TreeFilterSettings ==
    [filter_extrinsic_elements : BOOLEAN,
     thesis_focus_id : {f \in SUBSET {"a", "a1", "b1", "c", "n", "absent"} :
                           Cardinality(f) <= 2}]

\* parent.remove(element) for each element of a set: the elements and all
\* that is inside them leave the tree
RemoveElements(root, to_remove) ==
    [root EXCEPT !.elements =
        {e \in @ : e \notin to_remove /\ AncestorsOf(e) \cap to_remove = {}}]

\* a filter that protects no sibling
apply_thesis_focus_filter_Unprotected(root, focus_thesis_ids) ==
    LET IsThesis(e) == e \in root.elements /\ root.tag[e] = "THESIS"
        targets == {f \in focus_thesis_ids : IsThesis(f) /\ "source" \in AncestorsOf(f)}
        elements_to_remove ==
            {s \in root.elements :
                \E t \in targets : s # t /\ getparent(s) = getparent(t)}
    IN  RemoveElements(root, elements_to_remove)

apply_thesis_focus_filter_SiblingsOnly(root, focus_thesis_ids) ==
    LET IsThesis(e) == e \in root.elements /\ root.tag[e] = "THESIS"
        targets == {f \in focus_thesis_ids : IsThesis(f) /\ "source" \in AncestorsOf(f)}
        is_sibling_protected(s) == IsThesis(s) /\ s \in focus_thesis_ids
        elements_to_remove ==
            {s \in root.elements :
                \E t \in targets :
                    s # t /\ getparent(s) = getparent(t) /\ ~is_sibling_protected(s)}
    IN  RemoveElements(root, elements_to_remove)

apply_thesis_focus_filter(root, focus_thesis_ids) ==
    LET IsThesis(e) == e \in root.elements /\ root.tag[e] = "THESIS"
        \* the focus ids that name a THESIS with a source ancestor
        targets == {f \in focus_thesis_ids : IsThesis(f) /\ "source" \in AncestorsOf(f)}
        is_sibling_protected(s) ==
            \/ IsThesis(s) /\ s \in focus_thesis_ids
            \/ \E d \in root.elements :
                  IsThesis(d) /\ s \in AncestorsOf(d) /\ d \in focus_thesis_ids
        elements_to_remove ==
            {s \in root.elements :
                \E t \in targets :
                    s # t /\ getparent(s) = getparent(t) /\ ~is_sibling_protected(s)}
    IN  RemoveElements(root, elements_to_remove)

\* one filter step of create_dot, with the condition under which it runs
FilterStep(step, root, props, settings) ==
    CASE step = "custom_prop_filters" ->
            [xml_root |-> IF settings.custom_prop_filters # <<>>
                          THEN apply_custom_prop_filters(root, props,
                                                         settings.custom_prop_filters)
                          ELSE root,
             all_propositions |-> props]
      [] step = "custom_seq_phase_filters" ->
            [xml_root |-> IF settings.custom_seq_phase_filters # <<>>
                          THEN apply_custom_seq_phase_filters(root,
                                   settings.custom_seq_phase_filters)
                          ELSE root,
             all_propositions |-> props]
      [] step = "global toggles" -> apply_global_toggles(root, props, settings)
      [] step = "filter_extrinsic_elements" ->
            [xml_root |-> IF settings.filter_extrinsic_elements
                          THEN RemoveElements(root, root.extrinsic \cap root.elements)
                          ELSE root,
             all_propositions |-> props]
      [] step = "thesis_focus_filter" ->
            [xml_root |-> IF settings.thesis_focus_id # {}
                          THEN apply_thesis_focus_filter(root, settings.thesis_focus_id)
                          ELSE root,
             all_propositions |-> props]

FilterInit ==
    /\ \/ /\ pc = "documents loaded"
          /\ xml_root \in CustomDocuments
          /\ all_propositions \in CustomPropositionFiles
          /\ toggles \in CustomFilterMaps
       \/ /\ pc = "custom filters applied"
          /\ xml_root \in Documents
          /\ all_propositions \in PropositionFiles
          /\ toggles \in Toggles
       \/ /\ pc = "filter_all_sequences"
          /\ xml_root \in TreeDocuments
          /\ all_propositions = <<>>
          /\ toggles \in TreeFilterSettings
    /\ xml_before = <<>>
    /\ dot = <<>>
    /\ elements_to_exclude = {}
    /\ before_redirect = <<>>
    /\ before_prune = <<>>
    /\ before_reorganize = <<>>
    /\ before_dedup = <<>>
    /\ RerunIdle /\ RunIdle /\ FixupIdle /\ SearchIdle /\ LowerIdle

\* the custom proposition filter of create_dot
ApplyCustomPropFilters ==
    /\ pc = "documents loaded"
    /\ pc' = "custom_prop_filters"
    /\ xml_before' = [xml_root |-> xml_root, all_propositions |-> all_propositions]
    /\ LET after == FilterStep("custom_prop_filters", xml_root, all_propositions, toggles)
       IN  /\ xml_root' = after.xml_root
           /\ all_propositions' = after.all_propositions
    /\ UNCHANGED <<toggles, pipe_vars_but_pc, rerun_vars, fixup_vars, run_vars, search_vars, lower_vars>>

\* the custom sequence filter of create_dot
ApplyCustomSeqPhaseFilters ==
    /\ pc = "custom_prop_filters"
    /\ pc' = "custom_seq_phase_filters"
    /\ xml_before' = [xml_root |-> xml_root, all_propositions |-> all_propositions]
    /\ LET after == FilterStep("custom_seq_phase_filters", xml_root, all_propositions, toggles)
       IN  /\ xml_root' = after.xml_root
           /\ all_propositions' = after.all_propositions
    /\ UNCHANGED <<toggles, pipe_vars_but_pc, rerun_vars, fixup_vars, run_vars, search_vars, lower_vars>>

\* step (d) of create_dot
RemoveExtrinsicElements ==
    /\ pc = "filter_all_sequences"
    /\ pc' = "filter_extrinsic_elements"
    /\ xml_before' = [xml_root |-> xml_root, all_propositions |-> all_propositions]
    /\ LET after == FilterStep("filter_extrinsic_elements", xml_root, all_propositions, toggles)
       IN  /\ xml_root' = after.xml_root
           /\ all_propositions' = after.all_propositions
    /\ UNCHANGED <<toggles, pipe_vars_but_pc, rerun_vars, fixup_vars, run_vars, search_vars, lower_vars>>

\* the thesis-focus filter of create_dot
ApplyThesisFocusFilter ==
    /\ pc = "filter_extrinsic_elements"
    /\ pc' = "thesis_focus_filter"
    /\ xml_before' = [xml_root |-> xml_root, all_propositions |-> all_propositions]
    /\ LET after == FilterStep("thesis_focus_filter", xml_root, all_propositions, toggles)
       IN  /\ xml_root' = after.xml_root
           /\ all_propositions' = after.all_propositions
    /\ UNCHANGED <<toggles, pipe_vars_but_pc, rerun_vars, fixup_vars, run_vars, search_vars, lower_vars>>

\* the step that has just run is applied again to the tree it produced
ReapplyFilterStep ==
    /\ pc \in {"custom_prop_filters", "custom_seq_phase_filters",
               "global toggles applied",
               "filter_extrinsic_elements", "thesis_focus_filter"}
    /\ pc' = "filter step applied again"
    /\ xml_before' = [xml_root |-> xml_root, all_propositions |-> all_propositions,
                      step |-> pc, first |-> xml_before.xml_root]
    /\ LET after == FilterStep(IF pc = "global toggles applied" THEN "global toggles"
                               ELSE pc, xml_root, all_propositions, toggles)
       IN  /\ xml_root' = after.xml_root
           /\ all_propositions' = after.all_propositions
    /\ UNCHANGED <<toggles, pipe_vars_but_pc, rerun_vars, fixup_vars, run_vars, search_vars, lower_vars>>

FilterNext ==
    \/ ApplyCustomPropFilters
    \/ ApplyCustomSeqPhaseFilters
    \/ ApplyGlobalToggles
    \/ RemoveExtrinsicElements
    \/ ApplyThesisFocusFilter
    \/ ReapplyFilterStep

SpecFilter == FilterInit /\ [][FilterNext]_vars

\* ------------------------------------------------------------------------
\* fix_arrow_directions: the direction flags after the layout
\* ------------------------------------------------------------------------
\* the largest y coordinate the layout returns
MaxY == 1

\* the largest number of edge statements of a file
MaxArrowEdges == 2

\* the attribute texts of edge statements: "[...]" present or not, the
\* attributes in order, and a comma after the last attribute or not
EdgeAttributeTexts ==
    {[brackets |-> TRUE, attributes |-> a, comma |-> FALSE] :
        a \in {<<"color">>,
               <<"dir=none", "color">>,
               <<"dir=none", "lhead", "style=invis", "gephi_invis">>,
               <<"style=dashed", "xlabel">>,
               <<"color", "dir=back">>,
               <<"dir=both", "color">>,
               <<>>}}
    \cup {[brackets |-> TRUE, attributes |-> <<"color">>, comma |-> TRUE],
          [brackets |-> FALSE, attributes |-> <<>>, comma |-> FALSE]}

ArrowEdgeStatements ==
    {[kind |-> "edge", id |-> p[1], tgt |-> p[2], brackets |-> a.brackets,
      attributes |-> a.attributes, comma |-> a.comma] :
        p \in {<<T1, T2>>, <<T2, T1>>}, a \in EdgeAttributeTexts}

ArrowFiles == UNION {[1..n -> ArrowEdgeStatements] : n \in 1..MaxArrowEdges}

\* the lines of the plain output of the layout: a node line is usable when
\* it has four parts and numbers for x and y
PlainNodeLines(n) ==
    {<<>>}
    \cup {<<[first |-> "node", node_id |-> n, y |-> 0, usable |-> FALSE]>>}
    \cup {<<[first |-> "node", node_id |-> n, y |-> v, usable |-> TRUE]>> : v \in 0..MaxY}

PlainOutputs ==
    {<<>>}
    \cup {<<[first |-> "graph", node_id |-> <<>>, y |-> 0, usable |-> FALSE]>> \o l1 \o l2 :
             l1 \in PlainNodeLines(T1), l2 \in PlainNodeLines(T2)}

\* what subprocess.run gives: an exception, or a return code and stdout
OracleOutcomes ==
    {[error |-> e, returncode |-> 0, stdout |-> <<>>] :
        e \in {"FileNotFoundError", "TimeoutExpired"}}
    \cup {[error |-> "", returncode |-> rc, stdout |-> s] :
             rc \in {0, 1}, s \in PlainOutputs}

\* the file system and the layout, as one call of fix_arrow_directions meets them
Environments ==
    {[open_error |-> o, oracle |-> r] : o \in {"", "read", "write"}, r \in OracleOutcomes}

\* the node positions parsed from the plain output (a dict: a later line of
\* a node replaces an earlier one)
PositionsOf(stdout) ==
    LET usable == {i \in DOMAIN stdout : stdout[i].first = "node" /\ stdout[i].usable}
        last(n) == CHOOSE i \in usable :
                       /\ stdout[i].node_id = n
                       /\ \A j \in usable : stdout[j].node_id = n => j <= i
    IN  [n \in {stdout[i].node_id : i \in usable} |-> stdout[last(n)].y]

\* compute_node_positions without the test of the return code
compute_node_positions_IgnoreStatus(oracle) == IF oracle.error # "" THEN <<>> ELSE PositionsOf(oracle.stdout)

compute_node_positions(oracle) ==
    IF oracle.error # "" THEN <<>>
    ELSE IF oracle.returncode # 0 THEN <<>>
    ELSE IF oracle.stdout = <<>> THEN <<>>
    ELSE PositionsOf(oracle.stdout)

\* re.search(dir = value) on the attribute text
HasAttribute(attributes, token) == \E i \in DOMAIN attributes : attributes[i] = token

RECURSIVE parse_edges(_)
parse_edges(dot_content) ==
    IF dot_content = <<>> THEN <<>>
    ELSE LET st == Head(dot_content)
             rest == parse_edges(Tail(dot_content))
         IN  IF st.kind # "edge" THEN rest
             ELSE IF HasAttribute(st.attributes, "style=invis") THEN rest
             ELSE IF HasAttribute(st.attributes, "dir=both") THEN rest
             ELSE <<[source |-> st.id, target |-> st.tgt, full_match |-> st,
                     attributes |-> st.attributes,
                     is_undirected |-> HasAttribute(st.attributes, "dir=none"),
                     already_reversed |-> HasAttribute(st.attributes, "dir=back")]>>
                  \o rest

\* identify_edges_to_reverse with the comparison the other way round
identify_edges_to_reverse_Below(edges, node_positions) == LET Test(edge) == /\ ~edge.is_undirected /\ ~edge.already_reversed /\ edge.source \in DOMAIN node_positions /\ edge.target \in DOMAIN node_positions /\ node_positions[edge.source] > node_positions[edge.target] IN SelectSeq(edges, Test)

identify_edges_to_reverse(edges, node_positions) ==
    LET Test(edge) ==
            /\ ~edge.is_undirected
            /\ ~edge.already_reversed
            /\ edge.source \in DOMAIN node_positions
            /\ edge.target \in DOMAIN node_positions
            /\ node_positions[edge.source] < node_positions[edge.target]
    IN  SelectSeq(edges, Test)

\* the statement that replaces original_edge: dir="back" after the other
\* attributes, in the brackets the edge has or in new ones
ModifiedEdge(edge) ==
    LET original_edge == edge.full_match
    IN  IF original_edge.brackets
        THEN IF edge.attributes # <<>>
             THEN [original_edge EXCEPT !.attributes = Append(@, "dir=back"),
                                        !.comma = FALSE]
             ELSE [original_edge EXCEPT !.attributes = <<"dir=back">>]
        ELSE [original_edge EXCEPT !.brackets = TRUE, !.attributes = <<"dir=back">>]

\* str.replace puts the modified text in the place of every occurrence of
\* the text of the original edge
RECURSIVE modify_arrow_directions(_, _)
modify_arrow_directions(dot_content, edges_to_reverse) ==
    IF edges_to_reverse = <<>> THEN dot_content
    ELSE LET edge == Head(edges_to_reverse)
         IN  IF edge.is_undirected \/ edge.already_reversed
             THEN modify_arrow_directions(dot_content, Tail(edges_to_reverse))
             ELSE modify_arrow_directions(
                      [i \in DOMAIN dot_content |->
                          IF dot_content[i] = edge.full_match
                          THEN ModifiedEdge(edge) ELSE dot_content[i]],
                      Tail(edges_to_reverse))

\* the file fix_arrow_directions leaves
fix_arrow_directions(dot_content, env) ==
    IF env.open_error = "read" THEN dot_content
    ELSE LET node_positions == compute_node_positions(env.oracle)
             edges_to_reverse == identify_edges_to_reverse(parse_edges(dot_content),
                                                           node_positions)
         IN  IF DOMAIN node_positions = {} THEN dot_content
             ELSE IF edges_to_reverse = <<>> THEN dot_content
             ELSE IF env.open_error = "write" THEN dot_content
             ELSE modify_arrow_directions(dot_content, edges_to_reverse)

ArrowInit ==
    /\ pc = "create_dot"
    /\ dot \in ArrowFiles
    /\ elements_to_exclude = {}
    /\ before_redirect = <<>>
    /\ before_prune = <<>>
    /\ before_dedup = <<>>
    /\ before_reorganize = <<>>
    /\ RerunIdle /\ RunIdle /\ FixupIdle /\ SearchIdle /\ ToggleIdle /\ LowerIdle

FixArrowDirections ==
    /\ pc = "create_dot"
    /\ pc' = "fix_arrow_directions"
    /\ \E env \in Environments :
          /\ dot' = fix_arrow_directions(dot, env)
          /\ before_fixup' = [dot_content |-> dot, environment |-> env]
    /\ UNCHANGED <<elements_to_exclude, before_redirect, before_prune, before_dedup, before_reorganize>>
    /\ UNCHANGED <<rerun_vars, toggle_vars, lower_vars, search_vars, run_vars>>

SpecArrow == ArrowInit /\ [][FixArrowDirections]_vars

\* ------------------------------------------------------------------------
\* Properties of the rewriting passes
\* ------------------------------------------------------------------------
DefinitionCount(lines, n) ==
    Cardinality({i \in DOMAIN lines : lines[i].kind = "node" /\ lines[i].id = n})

EdgesOf(lines) == SelectSeq(lines, LAMBDA l : l.kind = "edge")

HasMissingEndpoint(l, lines) ==
    l.id \notin DefinedNodes(lines) \/ l.tgt \notin DefinedNodes(lines)

FilteredDefined(lines) == {n \in DefinedNodes(lines) : IsFiltered(n)}

MediatorsDefined(lines) == {n \in DefinedNodes(lines) : is_mediator_node(n)}

RealDefined(lines) == (DefinedNodes(lines) \ FilteredDefined(lines)) \ MediatorsDefined(lines)

\* the nodes on the paths that leave f and continue through mediators only
RECURSIVE MediatorReach(_, _, _)
MediatorReach(S, f, lines) ==
    LET T == S \cup UNION {Adjacent(ParsedEdges(lines), n) :
                              n \in {x \in S : x = f \/ x \in MediatorsDefined(lines)}}
    IN  IF T = S THEN S ELSE MediatorReach(T, f, lines)

ReachesRealNode(f, lines) == MediatorReach({f}, f, lines) \cap RealDefined(lines) # {}

\* C2: the pruning pass keeps a filtered node exactly when, in the file it
\* was handed, a path leads from the node through mediators to a real node;
\* no edge of its output touches a filtered node it discarded.
C2_KeptIffReachesReal ==
    (pc = "prune_and_connect_filtered_nodes" /\ elements_to_exclude # {})
    => \A f \in FilteredDefined(before_prune) :
          /\ f \in DefinedNodes(dot) <=> ReachesRealNode(f, before_prune)
          /\ f \notin DefinedNodes(dot)
                => \A i \in EdgeIndices(dot) : dot[i].id # f /\ dot[i].tgt # f

\* one filtered node is kept and another, which had edges, is discarded
C2_Witness ==
    /\ pc = "prune_and_connect_filtered_nodes"
    /\ \E f \in FilteredDefined(before_prune) : f \in DefinedNodes(dot)
    /\ \E g \in FilteredDefined(before_prune) :
          /\ g \notin DefinedNodes(dot)
          /\ \E i \in EdgeIndices(before_prune) :
                before_prune[i].id = g \/ before_prune[i].tgt = g

\* the ids by which the stated priority order may replace endpoint n
Resolutions(n, lines, excluded) ==
    IF n \in DefinedNodes(lines) THEN {n}
    ELSE IF n \in excluded THEN {FilteredId(n)}
    ELSE {XmlThesisAncestors(n)[k] : k \in DOMAIN XmlThesisAncestors(n)}
         \cap DefinedNodes(lines)

\* the output edges follow the input edges one by one under the stated rule
RECURSIVE FollowsPriority(_, _, _, _)
FollowsPriority(in_edges, out_edges, lines, excluded) ==
    IF in_edges = <<>> THEN out_edges = <<>>
    ELSE LET l == Head(in_edges)
             S == Resolutions(l.id, lines, excluded)
             T == Resolutions(l.tgt, lines, excluded)
             kept == /\ out_edges # <<>>
                     /\ Head(out_edges).id \in S
                     /\ Head(out_edges).tgt \in T
                     /\ Head(out_edges).attrs = l.attrs
                     /\ FollowsPriority(Tail(in_edges), Tail(out_edges), lines, excluded)
             removed == FollowsPriority(Tail(in_edges), out_edges, lines, excluded)
         IN  IF S = {} \/ T = {} THEN removed
             ELSE IF \E x \in S : x \in T THEN kept \/ removed
             ELSE kept

\* C6: an undefined endpoint on the exclusion list becomes its placeholder;
\* any other undefined endpoint becomes an ancestor THESIS that has a
\* definition, when there is one; the edge is removed when an undefined
\* endpoint has neither, and kept when every undefined endpoint was resolved.
C6_RedirectPriority ==
    pc = "redirect_or_remove_invalid_edges"
    => FollowsPriority(EdgesOf(before_redirect), EdgesOf(dot), before_redirect,
                       elements_to_exclude)

\* the mediator sequences that contain m, without repetition
MediatorPaths(m, meds) ==
    {p \in UNION {[1..n -> meds] : n \in 1..Cardinality(meds)} :
        /\ \A i, j \in DOMAIN p : i # j => p[i] # p[j]
        /\ \E i \in DOMAIN p : p[i] = m}

\* m lies on a path of mediators between two distinct nodes of real
Bridges(m, edges, meds, real) ==
    \E p \in MediatorPaths(m, meds) :
        /\ \A i \in 1..(Len(p) - 1) : p[i + 1] \in Adjacent(edges, p[i])
        /\ \E r1 \in Adjacent(edges, p[1]) \cap real :
              \E r2 \in Adjacent(edges, p[Len(p)]) \cap real : r1 # r2

\* C7: when the pruning pass has run on a file with filtered nodes, a
\* mediator survives exactly when it lies on a path of mediators between two
\* distinct real or kept filtered nodes.
C7_MediatorSurvivesIffBridges ==
    (/\ pc = "prune_and_connect_filtered_nodes"
     /\ elements_to_exclude # {}
     /\ FilteredDefined(before_prune) # {})
    => LET kept == FilteredDefined(before_prune) \cap DefinedNodes(dot)
           gone == FilteredDefined(before_prune) \ kept
           edges == {e \in ParsedEdges(before_prune) : e[1] \notin gone /\ e[2] \notin gone}
           meds == MediatorsDefined(before_prune)
           real == RealDefined(before_prune) \cup kept
       IN  \A m \in meds : m \in DefinedNodes(dot) <=> Bridges(m, edges, meds, real)

\* C8: for every id X on the exclusion list, X has no definition in the file
\* handed to edge validation; the edges from a defined node m to X leave the
\* pass as edges from m to X_filtered and none to X remains; and when there
\* is such an edge the output holds exactly one definition of X_filtered, with
\* the style of X's element type, in the block in front of the final closing
\* brace.
C8_ExcludedTargetRedirected ==
    pc = "redirect_or_remove_invalid_edges"
    => \A X \in elements_to_exclude :
          LET into(m) == {i \in EdgeIndices(before_redirect) :
                             before_redirect[i].tgt = X /\ before_redirect[i].id = m}
              outof(m) == {i \in EdgeIndices(dot) :
                             dot[i].tgt = FilteredId(X) /\ dot[i].id = m}
              defs == {i \in DOMAIN dot : dot[i].kind = "node" /\ dot[i].id = FilteredId(X)}
          IN  /\ X \notin DefinedNodes(before_redirect)
              /\ \A i \in EdgeIndices(dot) : dot[i].tgt # X
              /\ \A m \in DefinedNodes(before_redirect) :
                    /\ Cardinality(outof(m)) >= Cardinality(into(m))
                    /\ into(m) # {}
                          => /\ Cardinality(defs) = 1
                             /\ \A i \in defs :
                                   /\ dot[i].attrs.style
                                         = (IF XmlTag(X) = "SUPPORT"
                                            THEN "filtered SUPPORT" ELSE "filtered THESIS")
                                   /\ i < ClosingIndex(dot)
                                   /\ \A j \in (i + 1)..(ClosingIndex(dot) - 1) :
                                         dot[j].kind = "node" /\ IsFiltered(dot[j].id)

\* the excluded THESIS T2 is the target of two edges from defined mediators
C8_Witness ==
    /\ pc = "redirect_or_remove_invalid_edges"
    /\ T2 \in elements_to_exclude
    /\ Cardinality({i \in EdgeIndices(dot) :
                       dot[i].tgt = FilteredId(T2) /\ is_mediator_node(dot[i].id)}) >= 2

\* C9: a second run of remove_duplicate_definitions, on the file the first
\* run wrote, leaves every line of the file as it is.
C9_DedupIdempotent == [][RemoveDuplicateDefinitionsAgain => dot' = dot]_vars

\* the pass ran twice on a file from which the first run removed a definition
\* that differed from the one it kept only in its indentation
C9_Witness ==
    /\ pc = "remove_duplicate_definitions again"
    /\ Len(dot) < Len(before_dedup)
    /\ \E i, j \in DOMAIN before_dedup :
          /\ i < j
          /\ before_dedup[i] # before_dedup[j]
          /\ Strip(before_dedup[i]) = Strip(before_dedup[j])
          /\ StartsWithQuote(before_dedup[i])
\* the toggles of which only the one of highest precedence is left active
HighestToggleOnly(t) ==
    IF t.filter_propositions
    THEN [t EXCEPT !.filter_matching_proposition_sequences = FALSE,
                   !.filter_all_sequences = FALSE]
    ELSE IF t.filter_matching_proposition_sequences
         THEN [t EXCEPT !.filter_all_sequences = FALSE]
         ELSE t

\* C10: the document and the propositions that the global toggles leave are
\* those that the active toggle of highest precedence alone would leave; with
\* filter_propositions or filter_matching_proposition_sequences active, the
\* removal of all sequences does not happen.
C10_OnlyHighestToggleFires ==
    pc = "global toggles applied"
    => /\ [xml_root |-> xml_root, all_propositions |-> all_propositions]
          = apply_global_toggles(xml_before.xml_root, xml_before.all_propositions,
                                 HighestToggleOnly(toggles))
       /\ (toggles.filter_propositions \/ toggles.filter_matching_proposition_sequences)
          => xml_root.sequence = xml_before.xml_root.sequence

\* ------------------------------------------------------------------------
\* Properties of the lowering stage
\* ------------------------------------------------------------------------
\* the ids that occur in the node definitions and edges of a file
IdsIn(lines) ==
    {lines[i].id : i \in {j \in DOMAIN lines : lines[j].kind \in {"node", "edge"}}}
    \cup {lines[i].tgt : i \in {j \in DOMAIN lines : lines[j].kind = "edge"}}

\* C3: in the final graph text every mediator node id has exactly one node
\* definition, whatever elements and relations were lowered.
C3_MediatorDefinedOnce ==
    pc = "create_dot" =>
        \A node_id \in IdsIn(dot) :
            is_mediator_node(node_id) => DefinitionCount(dot, node_id) = 1

\* C4: while the elements are lowered, an id the generator returned occurs in
\* no line that was in the file when the generator returned it, the lines the
\* THESIS and SUPPORT processors write to the file alone included.
C4_ReturnedIdIsFresh ==
    pc = "initialize_elements_clusters" =>
        \A i \in DOMAIN allocated :
            \A k \in 1..allocated[i].at : ~QuotedIn(allocated[i].id, dot[k])


\* ------------------------------------------------------------------------
\* Properties of two runs
\* ------------------------------------------------------------------------
\* C5: two runs of the passes on the same file and the same excluded
\* elements leave the same graph text, whatever order the sets are iterated in.
C5_SameTextOnRerun ==
    pc = "create_dot again" => dot_rerun = dot

\* ------------------------------------------------------------------------
\* Properties of the document filters
\* ------------------------------------------------------------------------
\* the positions of the children of a list that are no longer in it
RemovedPositions(before, after) ==
    {i \in DOMAIN before : \A j \in DOMAIN after : after[j] # before[i]}

\* a THESIS id is listed for a key of a filter map
Listed(map, key, t) == Has(map, key) /\ t \in Get(map, key)

\* C11: apply_custom_prop_filters removes a matchingProposition only when its
\* propRef is a key of the filter map and the nearest THESIS above it is
\* listed for that key; the matchingProposition elements that link the
\* proposition to other THESIS elements stay, and so does every
\* matchingPropositionSequence and matchingPropositionPhases record of a
\* THESIS that the map does not list.
C11_OnlyListedLinkRemoved ==
    pc = "custom_prop_filters" =>
        LET map == toggles.custom_prop_filters
            before == xml_before.xml_root
        IN  \A t \in {T1, T2, T3} :
                /\ \A p \in before.matchingProposition[t] :
                      p \notin xml_root.matchingProposition[t] => Listed(map, p, t)
                /\ (\A i \in DOMAIN map : t \notin map[i].v)
                   => /\ xml_root.matchingPropositionSequence[t]
                            = before.matchingPropositionSequence[t]
                      /\ xml_root.phase[t] = before.phase[t]

\* C12 as claimed: when a custom filter removes matchingPropositionSequence
\* records from a sequence, a phase of that sequence with exactly one
\* matchingPropositionPhases child loses that child, and any other phase
\* loses the children at the original positions of the removed records.
C12_SinglePhaseAlwaysRemoved ==
    pc \in {"custom_prop_filters", "custom_seq_phase_filters"} =>
        \A u \in {T1, T2, T3} :
            LET before == xml_before.xml_root
                removed == RemovedPositions(before.matchingPropositionSequence[u],
                                            xml_root.matchingPropositionSequence[u])
            IN  removed # {} =>
                    \A k \in DOMAIN before.phase[u] :
                        RemovedPositions(before.phase[u][k], xml_root.phase[u][k])
                            = IF Len(before.phase[u][k]) = 1 THEN {1}
                              ELSE {p \in removed : p <= Len(before.phase[u][k])}

\* C12: when a custom filter removes matchingPropositionSequence records from
\* a sequence, every phase of that sequence loses exactly the
\* matchingPropositionPhases children at the original positions of the
\* removed records; a phase with fewer children than such a position loses
\* nothing for it, so the single child of a phase goes only with the first
\* record.
C12_PhaseAtSameIndexRemoved ==
    pc \in {"custom_prop_filters", "custom_seq_phase_filters"} =>
        \A u \in {T1, T2, T3} :
            LET before == xml_before.xml_root
                removed == RemovedPositions(before.matchingPropositionSequence[u],
                                            xml_root.matchingPropositionSequence[u])
            IN  \A k \in DOMAIN before.phase[u] :
                    RemovedPositions(before.phase[u][k], xml_root.phase[u][k])
                        = {p \in removed : p <= Len(before.phase[u][k])}

\* the sequence filter removed the second of three records of T1: the first
\* phase, with three children, lost its second child and the second phase
\* kept its single child
C12_Witness ==
    /\ pc = "custom_seq_phase_filters"
    /\ Len(xml_before.xml_root.matchingPropositionSequence[T1]) = 3
    /\ RemovedPositions(xml_before.xml_root.matchingPropositionSequence[T1],
                        xml_root.matchingPropositionSequence[T1]) = {2}
    /\ xml_before.xml_root.phase[T1] = <<<<1, 2, 3>>, <<1>>>>
    /\ xml_root.phase[T1] = <<<<1, 3>>, <<1>>>>

\* a THESIS of the tree whose id is a focus id
IsFocusThesis(root, e) ==
    e \in root.elements /\ root.tag[e] = "THESIS" /\ e \in toggles.thesis_focus_id

\* C13: for each focus THESIS under a source, apply_thesis_focus_filter
\* deletes exactly the immediate siblings that neither are a focus THESIS
\* nor contain one: a sibling is in the tree afterwards if and only if it
\* is or contains a focus THESIS.
C13_ExactlyUnfocusedSiblingsDeleted ==
    pc = "thesis_focus_filter" /\ toggles.thesis_focus_id # {} =>
        LET before == xml_before.xml_root
        IN  \A f \in before.elements : \A s \in before.elements \ {f} :
                (/\ IsFocusThesis(before, f)
                 /\ "source" \in AncestorsOf(f)
                 /\ getparent(s) = getparent(f))
                => (s \in xml_root.elements
                        <=> \/ IsFocusThesis(before, s)
                            \/ \E d \in before.elements :
                                  IsFocusThesis(before, d) /\ s \in AncestorsOf(d))

\* the focus THESIS a under the source: its sibling b stayed, for the focus
\* THESIS b1 inside it, and its sibling c was deleted
C13_Witness ==
    /\ pc = "thesis_focus_filter"
    /\ IsFocusThesis(xml_before.xml_root, "a")
    /\ IsFocusThesis(xml_before.xml_root, "b1")
    /\ "c" \in xml_before.xml_root.elements
    /\ {"b", "b1"} \subseteq xml_root.elements
    /\ "c" \notin xml_root.elements

\* C14: each filter step of create_dot (custom proposition filter, custom
\* sequence filter, global toggles, extrinsic removal, thesis-focus filter),
\* applied a second time to the tree it produced, changes nothing.
C14_FilterStepIdempotent ==
    pc = "filter step applied again" =>
        /\ xml_root = xml_before.xml_root
        /\ all_propositions = xml_before.all_propositions

\* the sequence filter ran twice, and its first run removed records
C14_Witness ==
    /\ pc = "filter step applied again"
    /\ xml_before.step = "custom_seq_phase_filters"
    /\ xml_before.first # xml_before.xml_root

\* ------------------------------------------------------------------------
\* Properties of reorganize_dot_file
\* ------------------------------------------------------------------------
\* how many lines of a file are the given line
Occurrences(lines, line) == Cardinality({i \in DOMAIN lines : lines[i] = line})

\* C15: every node definition and every edge of the file handed to
\* reorganize_dot_file is in the file it writes exactly once: none is lost
\* and none is written twice.
C15_ReorganizeKeepsEachDefinitionOnce ==
    pc = "create_dot" =>
        \A i \in DOMAIN before_reorganize :
            before_reorganize[i].kind \in {"node", "edge"}
            => Occurrences(before_redirect, before_reorganize[i]) = 1

\* ------------------------------------------------------------------------
\* Properties of the dashed edges of prune_and_connect_filtered_nodes
\* ------------------------------------------------------------------------
\* the dashed edges of a file
DashedEdges(lines) ==
    {i \in EdgeIndices(lines) : lines[i].attrs.style = "dashed"}

\* the edges of a file that join filtered nodes and mediators, dashed edges
\* left out, as (src, tgt, line)
RestrictedEdges(lines) ==
    {e \in ParsedEdges(lines) :
        /\ e[3] \notin DashedEdges(lines)
        /\ IsFiltered(e[1]) \/ is_mediator_node(e[1])
        /\ IsFiltered(e[2]) \/ is_mediator_node(e[2])}

\* C16: a dashed edge is added between two kept filtered nodes only when
\* they were connected, among filtered nodes and mediators, in the file
\* handed to the pass and every such connection went through a node the pass
\* removed: the two nodes are not joined by a direct edge or through
\* surviving mediators and filtered nodes in the file the pass leaves.
C16_DashedOnlyAcrossRemoved ==
    (pc = "prune_and_connect_filtered_nodes" /\ elements_to_exclude # {})
    => \A i \in DashedEdges(dot) :
          /\ dot[i].tgt \in Component({dot[i].id}, RestrictedEdges(before_prune))
          /\ dot[i].tgt \notin Component({dot[i].id}, RestrictedEdges(dot))

\* the dashed edges of a file that join a and b, in either direction
DashedBetween(lines, a, b) ==
    {i \in DashedEdges(lines) : {lines[i].id, lines[i].tgt} = {a, b}}

\* C17 as claimed: when a filtered node F1 was connected to a surviving
\* filtered node F2 solely through one mediator that the pass removes, the
\* pass adds one dashed edge between F1 and F2, labelled "via 1 filtered".
C17_ViaOneRemovedMediator ==
    (pc = "prune_and_connect_filtered_nodes" /\ elements_to_exclude # {})
    => \A F1 \in FilteredDefined(before_prune), F2 \in FilteredDefined(before_prune),
          m \in MediatorsDefined(before_prune) :
          LET r == RestrictedEdges(before_prune)
          IN  (/\ F1 # F2
               /\ F2 \in DefinedNodes(dot)
               /\ m \notin DefinedNodes(dot)
               /\ {F1, F2} \subseteq Adjacent(r, m)
               /\ F2 \notin Component({F1}, {e \in r : e[1] # m /\ e[2] # m}))
              => /\ Cardinality(DashedBetween(dot, F1, F2)) = 1
                 /\ \A i \in DashedBetween(dot, F1, F2) : dot[i].attrs.via = 1

\* C17: the label of a dashed edge counts the filtered nodes the pass
\* removed between its ends. When two kept filtered nodes A and B, the only
\* kept filtered nodes of their component of filtered nodes and mediators,
\* were connected solely through one filtered node F3 that the pass removes,
\* the pass adds one dashed edge between A and B, labelled "via 1 filtered".
C17_ViaOnePrunedFiltered ==
    (pc = "prune_and_connect_filtered_nodes" /\ elements_to_exclude # {})
    => \A A \in FilteredDefined(before_prune), B \in FilteredDefined(before_prune),
          F3 \in FilteredDefined(before_prune) :
          LET r == RestrictedEdges(before_prune)
              comp == Component({A}, r)
              kept == FilteredDefined(before_prune) \cap DefinedNodes(dot)
          IN  (/\ A # B
               /\ comp \cap kept = {A, B}
               /\ (comp \cap FilteredDefined(before_prune)) \ kept = {F3}
               /\ B \notin Component({A}, {e \in r : e[1] # F3 /\ e[2] # F3}))
              => /\ Cardinality(DashedBetween(dot, A, B)) = 1
                 /\ \A i \in DashedBetween(dot, A, B) : dot[i].attrs.via = 1

\* T1_filtered and T2_filtered are kept, S1_filtered between them is
\* removed, and the dashed edge that joins them says "via 1 filtered"
C17_Witness ==
    /\ pc = "prune_and_connect_filtered_nodes"
    /\ FilteredId(S1) \in DefinedNodes(before_prune)
    /\ FilteredId(S1) \notin DefinedNodes(dot)
    /\ \E i \in DashedBetween(dot, FilteredId(T1), FilteredId(T2)) : dot[i].attrs.via = 1

\* C18: the orientation of a dashed edge follows the majority of the hop
\* directions on the shortest path between its ends and does not depend on
\* the node the search started from: no start gives a dashed edge A -> B
\* where another start gives B -> A.
C18_OrientationIndependentOfStart ==
    (pc = "prune_and_connect_filtered_nodes" /\ elements_to_exclude # {})
    => \A order \in Orders :
          LET other == prune_and_connect_filtered_nodes(before_prune,
                                                        elements_to_exclude, order)
          IN  \A i \in DashedEdges(dot) :
                  ~\E j \in DashedEdges(other) :
                      other[j].id = dot[i].tgt /\ other[j].tgt = dot[i].id

\* ------------------------------------------------------------------------
\* Properties of fix_arrow_directions
\* ------------------------------------------------------------------------
\* the coordinates of the nodes in the plain output the layout returned
Coordinates(oracle) ==
    [n \in {oracle.stdout[i].node_id :
               i \in {j \in DOMAIN oracle.stdout : oracle.stdout[j].usable}} |->
        (oracle.stdout[CHOOSE i \in DOMAIN oracle.stdout :
                           oracle.stdout[i].usable /\ oracle.stdout[i].node_id = n]).y]

\* the oracle is missing, exits non-zero, times out or returns no usable
\* coordinates
OracleFailed(oracle) ==
    \/ oracle.error # ""
    \/ oracle.returncode # 0
    \/ \A i \in DOMAIN oracle.stdout : ~oracle.stdout[i].usable

\* the edge is marked bidirectional, undirected or reversed
MarkedAlready(st) ==
    \E i \in DOMAIN st.attributes : st.attributes[i] \in {"dir=both", "dir=none", "dir=back"}

C20_NoOracleNoChange ==
    (pc = "fix_arrow_directions" /\ OracleFailed(before_fixup.environment.oracle))
    => dot = before_fixup.dot_content

\* the oracle exited non-zero after it printed coordinates that put the
\* source of an unmarked edge above its target, and the file is unchanged
C20_Witness ==
    /\ pc = "fix_arrow_directions"
    /\ before_fixup.environment.open_error = ""
    /\ before_fixup.environment.oracle.returncode # 0
    /\ LET xy == Coordinates(before_fixup.environment.oracle)
       IN  \E i \in DOMAIN dot :
              /\ ~MarkedAlready(dot[i])
              /\ dot[i].id \in DOMAIN xy /\ dot[i].tgt \in DOMAIN xy
              /\ xy[dot[i].id] < xy[dot[i].tgt]
    /\ dot = before_fixup.dot_content

\* ------------------------------------------------------------------------
\* Properties of the redirection of redirect_or_remove_invalid_edges
\* ------------------------------------------------------------------------
\* the THESIS ancestors of element n that have a node definition, outermost first
DefinedThesisAncestors(n, lines) ==
    SelectSeq(XmlThesisAncestors(n), LAMBDA a : a \in DefinedNodes(lines))

\* endpoint n of an edge is missing, not excluded, and has a defined THESIS ancestor
Redirectable(n, lines, excluded) ==
    /\ n \notin DefinedNodes(lines)
    /\ n \notin excluded
    /\ DefinedThesisAncestors(n, lines) # <<>>

\* the nearest THESIS ancestor of n that has a node definition
NearestDefinedThesis(n, lines) ==
    LET a == DefinedThesisAncestors(n, lines) IN a[Len(a)]

\* the edge lines of a file as a set
EdgeLineSet(lines) == {lines[i] : i \in EdgeIndices(lines)}

\* C23: an edge with one defined endpoint and one missing, non-excluded
\* endpoint that has a defined THESIS ancestor leaves edge validation
\* redirected to the nearest such ancestor (unless that makes a self-loop),
\* whether or not the other THESIS ancestors have a definition.
C23_RedirectToNearestDefinedThesis ==
    pc = "redirect_or_remove_invalid_edges"
    => \A i \in EdgeIndices(before_redirect) :
          LET l == before_redirect[i]
              defined == DefinedNodes(before_redirect)
          IN  /\ (/\ l.tgt \in defined
                  /\ Redirectable(l.id, before_redirect, elements_to_exclude)
                  /\ NearestDefinedThesis(l.id, before_redirect) # l.tgt)
                 => EdgeLine(NearestDefinedThesis(l.id, before_redirect), l.tgt, l.attrs)
                        \in EdgeLineSet(dot)
              /\ (/\ l.id \in defined
                  /\ Redirectable(l.tgt, before_redirect, elements_to_exclude)
                  /\ NearestDefinedThesis(l.tgt, before_redirect) # l.id)
                 => EdgeLine(l.id, NearestDefinedThesis(l.tgt, before_redirect), l.attrs)
                        \in EdgeLineSet(dot)

\* C24: every edge that edge validation rewrote joins two different ids: an
\* edge whose endpoints become equal by substitution or redirection is
\* removed.
C24_NoRewrittenSelfLoop ==
    pc = "redirect_or_remove_invalid_edges"
    => \A l \in EdgeLineSet(dot) \ EdgeLineSet(before_redirect) : l.id # l.tgt

\* the edge "T1" -> "S1", whose missing target S1 redirects to T1 itself, is
\* gone while another edge was redirected to T1
C24_Witness ==
    /\ pc = "redirect_or_remove_invalid_edges"
    /\ T1 \in DefinedNodes(before_redirect)
    /\ S1 \notin DefinedNodes(before_redirect) \cup elements_to_exclude
    /\ EdgeLine(T1, S1, Attrs("solid")) \in EdgeLineSet(before_redirect)
    /\ \A l \in EdgeLineSet(dot) : l.id # l.tgt
    /\ \E l \in EdgeLineSet(dot) \ EdgeLineSet(before_redirect) : T1 \in {l.id, l.tgt}

\* C29: every placeholder definition that edge validation inserts is an
\* endpoint of an edge that leaves the same pass; no placeholder is defined
\* for an edge the pass removes.
C29_PlaceholderHasSurvivingEdge ==
    pc = "redirect_or_remove_invalid_edges"
    => \A n \in DefinedNodes(dot) \ DefinedNodes(before_redirect) :
          IsFiltered(n) => \E l \in EdgeLineSet(dot) : n \in {l.id, l.tgt}

\* ------------------------------------------------------------------------
\* Properties of the loops of prune_and_connect_filtered_nodes
\* ------------------------------------------------------------------------
\* the loops computed one iteration at a time write the file that
\* prune_and_connect_filtered_nodes writes
StepwiseAgrees ==
    (pc = "prune_and_connect_filtered_nodes" /\ iteration_order # <<>>)
    => dot = prune_and_connect_filtered_nodes(before_prune, elements_to_exclude,
                                              iteration_order)

\* a search takes no node twice from its queue; a round of the sweep is
\* never refused; and when the sweep has stopped, one more round removes no
\* mediator
SearchesBounded ==
    /\ \A i, j \in DOMAIN dequeued : i # j => dequeued[i] # dequeued[j]
    /\ (pc = "phase 1c" /\ changed) => rounds < MaxRounds
    /\ (pc = "phase 1c" /\ ~changed)
       => SweepRoundOf(dot, keep_filtered, removed_mediator_set, iteration_order)
              = removed_mediator_set

\* C26: prune_and_connect_filtered_nodes returns on every file, with or
\* without cycles: each search of phase 1a takes a node from its queue at
\* most once, the while loop of the mediator sweep ends after finitely many
\* rounds, and when it ends a further round would remove no mediator.
C26_PruningTerminates ==
    []SearchesBounded /\ <>(pc = "prune_and_connect_filtered_nodes")

\* the pass has returned on a file in which T1_filtered and T2_filtered lie
\* on a cycle through two mediators, after more than one round of the sweep
C26_Witness ==
    /\ pc = "prune_and_connect_filtered_nodes"
    /\ rounds >= 2
    /\ \A e \in {<<FilteredId(T1), T1_to_T2_1>>, <<T1_to_T2_1, FilteredId(T2)>>,
                 <<FilteredId(T2), T2_analogy_to_T1_1>>,
                 <<T2_analogy_to_T1_1, FilteredId(T1)>>} :
          \E l \in EdgeLineSet(before_prune) : l.id = e[1] /\ l.tgt = e[2]

\* ------------------------------------------------------------------------
\* Properties of what prune_and_connect_filtered_nodes removes and adds
\* ------------------------------------------------------------------------
\* the node and edge lines of the file before the pass that the file after
\* the pass no longer holds
RemovedByPruning ==
    {l \in {before_prune[i] : i \in DOMAIN before_prune} :
        /\ l.kind \in {"node", "edge"}
        /\ \A j \in DOMAIN dot : dot[j] # l}

\* the connected component of node n in the whole graph of the file
WholeComponent(lines, n) == Component({n}, ParsedEdges(lines))

\* C27: prune_and_connect_filtered_nodes removes a node definition or an
\* edge only when it lies in a connected component of the graph before the
\* pass that holds a filtered node; what lies in a component without a
\* filtered node, mediators included, is left as it was.
C27_RemovesOnlyInFilteredComponents ==
    pc = "prune_and_connect_filtered_nodes"
    => \A l \in RemovedByPruning :
          \E n \in WholeComponent(before_prune, l.id) : IsFiltered(n)

\* the edges of a file between defined filtered nodes and defined mediators
FilteredMediatorEdges(lines) ==
    LET restricted == FilteredDefined(lines) \cup MediatorsDefined(lines)
    IN  {e \in ParsedEdges(lines) : e[1] \in restricted /\ e[2] \in restricted}

\* the filtered nodes of the file before the pass that the pass keeps
KeptFiltered == FilteredDefined(before_prune) \cap DefinedNodes(dot)

\* the dashed edges of the file after the pass, as (src, tgt, line)
SynthesizedEdges == {<<dot[i].id, dot[i].tgt, i>> : i \in DashedEdges(dot)}

\* C28: the dashed edges that prune_and_connect_filtered_nodes adds form a
\* spanning tree over the kept filtered nodes of each connected component of
\* the graph of filtered nodes and mediators: every dashed edge joins two
\* distinct kept filtered nodes, none of them removed, and a component with
\* k >= 2 kept filtered nodes gets exactly k - 1 dashed edges, which connect
\* its k kept nodes.
C28_DashedSpanningTree ==
    (pc = "prune_and_connect_filtered_nodes" /\ elements_to_exclude # {})
    => /\ \A e \in SynthesizedEdges :
             /\ e[1] # e[2]
             /\ {e[1], e[2]} \subseteq KeptFiltered
             /\ {e[1], e[2]} \subseteq DefinedNodes(dot)
       /\ \A f \in KeptFiltered :
             LET K == Component({f}, FilteredMediatorEdges(before_prune)) \cap KeptFiltered
                 of_K == {e \in SynthesizedEdges : e[1] \in K \/ e[2] \in K}
             IN  Cardinality(K) >= 2
                 => /\ Cardinality(of_K) = Cardinality(K) - 1
                    /\ Component({f}, of_K) = K

\* T1_filtered, T2_filtered and S1_filtered are kept, lie in one component
\* and are joined by two dashed edges
C28_Witness ==
    /\ pc = "prune_and_connect_filtered_nodes"
    /\ KeptFiltered = {FilteredId(T1), FilteredId(T2), FilteredId(S1)}
    /\ Cardinality(SynthesizedEdges) = 2

\* ------------------------------------------------------------------------
\* Properties of apply_thesis_focus_filter on the focus theses themselves
\* ------------------------------------------------------------------------
\* C30: apply_thesis_focus_filter never removes a focus thesis: whatever the
\* focus ids are, nested in one another or inside siblings of other focus
\* theses, every THESIS whose id is a focus id and that was in the tree
\* before the filter is in the tree after it.
C30_FocusThesisKept ==
    pc = "thesis_focus_filter" =>
        \A f \in xml_before.xml_root.elements :
            IsFocusThesis(xml_before.xml_root, f) => f \in xml_root.elements

\* the focus THESIS a and the focus THESIS a1 inside it are both in the
\* tree after the filter, which deleted a2, the sibling of a1, and b, the
\* sibling of a
C30_Witness ==
    /\ pc = "thesis_focus_filter"
    /\ toggles.thesis_focus_id = {"a", "a1"}
    /\ IsFocusThesis(xml_before.xml_root, "a")
    /\ IsFocusThesis(xml_before.xml_root, "a1")
    /\ {"a2", "b"} \subseteq xml_before.xml_root.elements
    /\ {"a", "a1"} \subseteq xml_root.elements
    /\ xml_root.elements \cap {"a2", "b"} = {}

\* ------------------------------------------------------------------------
\* Properties of the identifier generator as a function of the lines
\* ------------------------------------------------------------------------
\* the lines the generator was given at call i
EmittedAt(i) == SubSeq(written_lines, 1, allocated[i].at)

C21_NoArtifactOnLoadError ==
    [][load_outcome # "parsed"
       => /\ pc' = "return"
          /\ passes_run' = <<>>
          /\ output_exists' = output_exists
          /\ dot' = dot]_vars

\* create_dot has returned after a parse error, with the file of an earlier
\* run still under dot_filename
C21_Witness ==
    /\ pc = "return"
    /\ load_outcome = "ParseError"
    /\ output_exists
    /\ dot = EarlierArtifact
    /\ passes_run = <<>>

\* stage p has run
Ran(p) == \E i \in DOMAIN passes_run : passes_run[i] = p

\* whenever stage q has run, stage p has run before it
RunsBefore(p, q) ==
    \A j \in DOMAIN passes_run :
        passes_run[j] = q => \E i \in 1..(j - 1) : passes_run[i] = p

\* stage q never runs before stage p
NeverBefore(q, p) ==
    \A i, j \in DOMAIN passes_run :
        (passes_run[i] = q /\ passes_run[j] = p) => j < i

\* C25: in every run of create_dot the rewriting passes run one after the
\* other in a fixed order: the id reconciliation before the edge validation
\* and before the pruning; the removal of the excluded node definitions
\* after lowering and reorganization and before the edge validation; the
\* pruning after the edge validation; deduplication and normalization last.
C25_FixedPassOrder ==
    /\ \A i, j \in DOMAIN passes_run : i # j => passes_run[i] # passes_run[j]
    /\ \A reconciliation \in {"replace_original_xml_ids", "detect_and_fix_tuple_node_ids"} :
          /\ RunsBefore(reconciliation, "redirect_or_remove_invalid_edges")
          /\ RunsBefore(reconciliation, "prune_and_connect_filtered_nodes")
    /\ RunsBefore("initialize_elements_clusters", "remove_excluded_node_definitions")
    /\ RunsBefore("reorganize_dot_file", "remove_excluded_node_definitions")
    /\ NeverBefore("redirect_or_remove_invalid_edges", "remove_excluded_node_definitions")
    /\ RunsBefore("redirect_or_remove_invalid_edges", "prune_and_connect_filtered_nodes")
    /\ \A i \in DOMAIN passes_run :
          /\ passes_run[i] = "remove_duplicate_definitions"
             => \A j \in (i + 1)..Len(passes_run) :
                   passes_run[j] = "normalize_dot_file_line_breaks"
          /\ passes_run[i] = "normalize_dot_file_line_breaks" => i = Len(passes_run)

\* a run with excluded elements in which every pass has run, the pruning
\* having added or removed something
C25_Witness ==
    /\ pc = "normalize_dot_file_line_breaks"
    /\ elements_to_exclude # {}
    /\ Len(passes_run) = 9
    /\ Ran("remove_excluded_node_definitions")
    /\ Ran("prune_and_connect_filtered_nodes")
    /\ before_prune # before_dedup

====
